---------------------------- MODULE Spec2Model ----------------------------
(***************************************************************************)
(* A model of the NEST ODE toolbox's symbolic core: Shape construction     *)
(* (shapes.py), assembly of the global system x' = Ax + C and the          *)
(* dependency / linearity analysis (system_of_shapes.py), and the          *)
(* analysis driver (__init__.py).                                          *)
(*                                                                         *)
(* Three specifications share the variables below; each one holds the      *)
(* variables of the other two at their initial value.                      *)
(*   PropSpec  the work-queue loop of propagate_lin_cc_judgements          *)
(*   OdeSpec   successive Shape.from_ode calls within one process          *)
(*   SysSpec   from_json_to_shapes, from_shapes, dependency analysis,      *)
(*             get_sub_system and compute_propagator                       *)
(***************************************************************************)
EXTENDS Integers, Sequences, FiniteSets, TLC

VARIABLES
    \* ---- propagate_lin_cc_judgements (system_of_shapes.py:79-96)
    node_is_lin,    \* the dict node_is_lin: symbol -> bool (mutated in place)
    E,              \* the edge list: tuples (n1, n2), "n1 depends on n2"
    queue,          \* the work queue
    pc,             \* position of the call
    entry,          \* node_is_lin as it was when the first call was entered
    enq,            \* per symbol, how often a demotion appended it to the queue
    calls,          \* number of calls of propagate_lin_cc_judgements entered
    first_result    \* what the first call returned

propVars == <<node_is_lin, E, queue, pc, entry, enq, calls, first_result>>

VARIABLES
    \* ---- Shape.from_ode (shapes.py:539-714)
    ode_default,    \* the list object that is the default of all_variable_symbols
    ode_pc,         \* "idle", "pdb" (stopped in pdb.set_trace()) or "returned"
    ode_in,         \* the arguments of the call in progress or just returned
    ode_out         \* its outcome

odeVars == <<ode_default, ode_pc, ode_in, ode_out>>

VARIABLES
    sys_pc,            \* where the analysis of one input stands
    indict,            \* the "dynamics" of the input: a list of declarations
    shape_list,        \* shapes, the list from_json_to_shapes returns
    shape_sys,         \* the SystemOfShapes from_shapes returns
    dependency_edges,  \* get_dependency_edges()
    lin_cc,            \* node_is_lin as dependency_analysis returns it
    sub_symbols,       \* the symbols get_sub_system is called with
    sub_sys,           \* the SystemOfShapes get_sub_system returns
    solver_dict,       \* the dictionary compute_propagator builds
    solvers_json       \* the list of solver entries analysis_ has built

sysVars == <<sys_pc, indict, shape_list, shape_sys, dependency_edges, lin_cc, sub_symbols,
            sub_sys, solver_dict, solvers_json>>

vars == <<propVars, odeVars, sysVars>>

-----------------------------------------------------------------------------
(* Bounds *)

\* number of symbols of the dependency graph handed to the propagation
NumNodes == 3
\* longest edge list handed to the propagation
MaxEdges == 2
\* highest ODE order of a shape
MaxOrder == 2
\* most additive terms of a right-hand side
MaxTerms == 2
\* longest all_variable_symbols list a caller passes to from_ode
MaxKnown == 2

-----------------------------------------------------------------------------
(* Sequence helpers *)

RECURSIVE SeqsUpTo(_, _)
SeqsUpTo(S, n) ==
    IF n = 0 THEN {<<>>}
    ELSE LET shorter == SeqsUpTo(S, n - 1)
         IN  shorter \cup {Append(s, e) : s \in {t \in shorter : Len(t) = n - 1}, e \in S}

Range(s) == {s[i] : i \in DOMAIN s}

\* list.index(e): the first position of e in s (0 when e is not in s)
IndexOf(s, e) ==
    IF e \in Range(s) THEN CHOOSE i \in DOMAIN s : s[i] = e /\ \A j \in 1..(i - 1) : s[j] # e
    ELSE 0

-----------------------------------------------------------------------------
(* Symbols and expressions (the sympy capability the code relies on)        *)
(*                                                                          *)
(* A symbol is a variable name followed by d derivative marks; the marks    *)
(* are spelled "'" in the input and "__d" after the replace at              *)
(* shapes.py:606/612.  An expression is a polynomial in the symbols in      *)
(* expanded normal form: a set of terms with distinct monomials and         *)
(* nonzero coefficients; a coefficient stands for a parameter-only factor.  *)
(* The empty set is the expression 0.                                       *)

VarNames == {"x", "y", "I_shape_gap1", "dx", "x_in", "d"}

Sym(name, d) == [n |-> name, d |-> d]

AllSyms == {Sym(name, d) : name \in VarNames, d \in 0..(MaxOrder - 1)}

\* the monomial 1
UnitMono == [s \in AllSyms |-> 0]

Const(c) == IF c = 0 THEN {} ELSE {[c |-> c, m |-> UnitMono]}

Zero == {}

Monos(e) == {t.m : t \in e}

Coef(e, m) == IF m \in Monos(e) THEN (CHOOSE t \in e : t.m = m).c ELSE 0

\* a + b, like terms collected
Add(a, b) ==
    {[c |-> Coef(a, m) + Coef(b, m), m |-> m] :
        m \in {mm \in Monos(a) \cup Monos(b) : Coef(a, mm) + Coef(b, mm) # 0}}

Scale(k, a) == IF k = 0 THEN {} ELSE {[c |-> k * t.c, m |-> t.m] : t \in a}

Sub(a, b) == Add(a, Scale(-1, b))

\* a * sym
MulSym(a, s) == {[c |-> t.c, m |-> [t.m EXCEPT ![s] = @ + 1]] : t \in a}

\* term / sym
DivSym(t, s) == [c |-> t.c, m |-> [t.m EXCEPT ![s] = @ - 1]]

\* term.free_symbols, restricted to the variable symbols
FreeSymbols(t) == {s \in AllSyms : t.m[s] # 0}

ExprFreeSymbols(e) == UNION {FreeSymbols(t) : t \in e}

\* sympy.diff(a, sym)
Diff(a, s) ==
    {[c |-> t.c * t.m[s], m |-> [t.m EXCEPT ![s] = @ - 1]] : t \in {u \in a : u.m[s] # 0}}

\* the sum of f over the set S of pairs of terms
RECURSIVE SumCoefProducts(_)
SumCoefProducts(S) ==
    IF S = {} THEN 0
    ELSE LET q == CHOOSE r \in S : TRUE IN q[1].c * q[2].c + SumCoefProducts(S \ {q})

MonoProduct(m1, m2) == [s \in AllSyms |-> m1[s] + m2[s]]

\* a * b, expanded and like terms collected
Mul(a, b) ==
    LET ms == {MonoProduct(t.m, u.m) : t \in a, u \in b}
        coef(m) == SumCoefProducts({q \in a \X b : MonoProduct(q[1].m, q[2].m) = m})
    IN  {[c |-> coef(m), m |-> m] : m \in {mm \in ms : coef(mm) # 0}}

\* functools.reduce(lambda x, y: x + y, terms)
RECURSIVE SumSet(_)
SumSet(S) ==
    IF S = {} THEN Zero
    ELSE LET e == CHOOSE f \in S : TRUE IN Add(e, SumSet(S \ {e}))

RECURSIVE SumSeq(_)
SumSeq(q) == IF q = <<>> THEN Zero ELSE Add(Head(q), SumSeq(Tail(q)))

\* the monomials of degree at most two over the symbols S
MonoTimes(m, s) == [m EXCEPT ![s] = @ + 1]

MonosOver(S) ==
    {UnitMono} \cup {MonoTimes(UnitMono, s) : s \in S}
               \cup {MonoTimes(MonoTimes(UnitMono, s), t) : s, t \in S}

MonoDegree(m) == LET RECURSIVE Tot(_)
                     Tot(S) == IF S = {} THEN 0
                               ELSE LET s == CHOOSE u \in S : TRUE IN m[s] + Tot(S \ {s})
                 IN  Tot(AllSyms)

\* parameter-only coefficients of the terms a right-hand side is written with
Coeffs == {-1, 2}

\* the terms a right-hand side is drawn from: linear and constant terms with
\* any coefficient, products of two variables with coefficient 1
TermPool(S, K) ==
    {[c |-> k, m |-> mm] : k \in K, mm \in {u \in MonosOver(S) : MonoDegree(u) <= 1}}
    \cup {[c |-> 1, m |-> mm] : mm \in {u \in MonosOver(S) : MonoDegree(u) = 2}}

\* the expanded right-hand sides of at most n terms over the symbols S
RECURSIVE ExprsOver(_, _, _)
ExprsOver(S, K, n) ==
    IF n = 0 THEN {Zero}
    ELSE LET fewer == ExprsOver(S, K, n - 1)
         IN  fewer \cup UNION {{e \cup {t} : t \in {u \in TermPool(S, K) : u.m \notin Monos(e)}} :
                                    e \in fewer}

ExprsUpTo(S, n) == ExprsOver(S, Coeffs, n)

-----------------------------------------------------------------------------
(* Shape (shapes.py) *)

\* derivative_symbols = [ Symbol(str(symbol) + "__d" * i) for i in range(order) ]
DerivativeSymbols(symbol, order) == [i \in 1..order |-> Sym(symbol, i - 1)]

\* variant: the base symbol first
StateVariablesAscending(symbol, order) == [i \in 1..order |-> Sym(symbol, i - 1)]

\* Shape.__init__: state_variables, the highest derivative first
StateVariables(symbol, order) == [i \in 1..order |-> Sym(symbol, order - i)]

\* the keys of Shape._sympy_globals
ReservedNames == {"Symbol", "Integer", "Float", "Function", "Pow", "power", "exp", "log",
                  "sin", "cos", "tan", "asin", "sinh", "asinh", "acos", "cosh", "acosh",
                  "tanh", "atanh", "e", "E", "t"}

\* Shape.__init__
NewShape(symbol, order, initial_values, derivative_factors, diff_rhs_derivatives) ==
    [symbol |-> symbol,
     order |-> order,
     initial_values |-> initial_values,
     derivative_factors |-> derivative_factors,
     state_variables |-> StateVariables(symbol, order),
     diff_rhs_derivatives |-> diff_rhs_derivatives]

\* variant: the factors are paired with the symbols from the highest derivative down
ReconstituteExprDescending(shape) ==
    Add(shape.diff_rhs_derivatives,
        SumSeq([k \in 1..Len(shape.derivative_factors) |->
                   MulSym(shape.derivative_factors[k],
                          Sym(shape.symbol, shape.order - k))]))

\* Shape.reconstitute_expr: diff_rhs_derivatives + sum of factor * derivative symbol,
\* the factors zipped with the symbols in ascending derivative order
ReconstituteExpr(shape) ==
    Add(shape.diff_rhs_derivatives,
        SumSeq([k \in 1..Len(shape.derivative_factors) |->
                   MulSym(shape.derivative_factors[k],
                          DerivativeSymbols(shape.symbol, shape.order)[k])]))

\* variant: a term is linear in sym if sym occurs in it to the first power
LinearTermsFirstPower(expr, sym, x) == {t \in expr : t.m[sym] = 1}

\* a term is linear in sym if term / sym has no free symbol in x
LinearTerms(expr, sym, x) ==
    {t \in expr : FreeSymbols(DivSym(t, sym)) \cap Range(x) = {}}

\* Shape.split_lin_nonlin, the loop over the known symbols x from position j on
RECURSIVE SplitLoop(_, _, _, _)
SplitLoop(expr, x, j, lin_factors) ==
    IF j > Len(x) THEN [lin_factors |-> lin_factors, nonlin_term |-> expr]
    ELSE LET sym == x[j]
             linear_terms == LinearTerms(expr, sym, x)
             linear_factor == SumSet({{DivSym(t, sym)} : t \in linear_terms})
             linear_term == SumSet({{t} : t \in linear_terms})
         IN  SplitLoop(Sub(expr, linear_term), x, j + 1, Append(lin_factors, linear_factor))

\* Shape.split_lin_nonlin(expr, x)
SplitLinNonlin(expr, x) == SplitLoop(expr, x, 1, <<>>)

-----------------------------------------------------------------------------
(* Shape.from_ode *)

NoShape == NewShape("", 0, {}, <<>>, Zero)

\* the names of VarNames, cut into the pieces they share
Spelling(name) ==
    CASE name = "dx" -> <<"d", "x">>
      [] name = "x_in" -> <<"x", "_in">>
      [] OTHER -> <<name>>

\* line 572: the regular expression symbol + "'+" matches the primes that follow
\* any name ending in the symbol
NameEndsWith(name, symbol) ==
    LET n == Spelling(name)
        t == Spelling(symbol)
    IN  Len(t) <= Len(n) /\ SubSeq(n, Len(n) - Len(t) + 1, Len(n)) = t

\* line 585: k[0:len(symbol)] == symbol
NameStartsWith(name, symbol) ==
    LET n == Spelling(name)
        t == Spelling(symbol)
    IN  Len(t) <= Len(n) /\ SubSeq(n, 1, Len(t)) = t

SetMax(S) == CHOOSE v \in S : \A w \in S : w <= v

\* lines 571-579: one plus the most primes that follow the symbol in the definition
OrderFromDefinition(symbol, definition) ==
    SetMax({1} \cup {s.d + 1 : s \in {u \in ExprFreeSymbols(definition) :
                                          u.d >= 1 /\ NameEndsWith(u.n, symbol)}})

\* lines 583-601: the checks on the keys of initial_values
InitialValuesSpecified(symbol, order, keys) ==
    /\ \A k \in keys : NameStartsWith(k.n, symbol)
    /\ \A k \in keys : k.d < order
    /\ \A lvl \in 0..(order - 1) : \E k \in keys : k.d = lvl

\* lines 610-611: the list object passed as all_variable_symbols after the call
ListAfterExtend(symbol, order, list) ==
    IF Sym(symbol, 0) \in Range(list) THEN list
    ELSE list \o DerivativeSymbols(symbol, order)

\* variant: the factors are taken in the order of derivative_symbols
LocalDerivativeFactorsByLevel(derivative_factors, local_symbols_idx) ==
    [k \in 1..Len(local_symbols_idx) |-> derivative_factors[local_symbols_idx[k]]]

\* line 704: [ derivative_factors[i] for i in range(len(all_variable_symbols))
\*             if i in local_symbols_idx ]
LocalDerivativeFactors(derivative_factors, local_symbols_idx) ==
    LET pos == SelectSeq([i \in 1..Len(derivative_factors) |-> i],
                         LAMBDA i : i \in Range(local_symbols_idx))
    IN  [k \in 1..Len(pos) |-> derivative_factors[pos[k]]]

\* line 705: [ derivative_factors[i] * all_variable_symbols[i] for i ... if i not in
\*             local_symbols_idx ]
NonlocalDerivativeTerms(derivative_factors, x, local_symbols_idx) ==
    LET pos == SelectSeq([i \in 1..Len(derivative_factors) |-> i],
                         LAMBDA i : i \notin Range(local_symbols_idx))
    IN  [k \in 1..Len(pos) |-> MulSym(derivative_factors[pos[k]], x[pos[k]])]

\* Shape.from_ode(symbol, definition, initial_values, all_variable_symbols = list):
\* the outcome, and the list object as the call leaves it
FromOde(symbol, definition, keys, list) ==
    LET order == Cardinality(keys)
        derivative_symbols == DerivativeSymbols(symbol, order)
        all_variable_symbols == ListAfterExtend(symbol, order, list)
        split == SplitLinNonlin(definition, all_variable_symbols)
        local_symbols_idx ==
            [k \in 1..order |-> IndexOf(all_variable_symbols, derivative_symbols[k])]
        nonlocal_terms ==
            NonlocalDerivativeTerms(split.lin_factors, all_variable_symbols, local_symbols_idx)
    IN  IF OrderFromDefinition(symbol, definition) # order
        THEN [outcome |-> "AssertionError", shape |-> NoShape, list_after |-> list]
        ELSE IF ~InitialValuesSpecified(symbol, order, keys)
        THEN [outcome |-> "Exception", shape |-> NoShape, list_after |-> list]
        ELSE IF \E k \in 1..order : local_symbols_idx[k] = 0
        THEN [outcome |-> "ValueError", shape |-> NoShape, list_after |-> all_variable_symbols]
        ELSE IF symbol \in ReservedNames
        THEN [outcome |-> "AssertionError", shape |-> NoShape,
              list_after |-> all_variable_symbols]
        ELSE [outcome |-> "Shape",
              shape |-> NewShape(symbol, order, keys,
                                 LocalDerivativeFactors(split.lin_factors, local_symbols_idx),
                                 Add(split.nonlin_term, SumSeq(nonlocal_terms))),
              list_after |-> all_variable_symbols]

\* line 710: if str(symbol) == "I_shape_gap1": import pdb; pdb.set_trace()
StopsInDebugger(symbol) == symbol = "I_shape_gap1"

\* the names from_ode is called with, and the symbols its definitions are written in
OdeNames == {"x", "I_shape_gap1"}

OdeSyms == {s \in AllSyms : s.n \in OdeNames}

\* the initial_values dictionaries: keys of the shape itself, or one of another variable
OdeKeySets(symbol) ==
    SUBSET {s \in AllSyms : s.n = symbol}
    \cup {{s} : s \in {u \in OdeSyms : u.n # symbol /\ u.d = 0}}

\* the all_variable_symbols argument: omitted, or a list of the caller
OdeLists ==
    {[given |-> FALSE, list |-> <<>>]}
    \cup {[given |-> TRUE, list |-> l] : l \in SeqsUpTo(OdeSyms, MaxKnown)}

\* no SystemOfShapes, no solver dictionary
NoSystem == [x |-> <<>>, A |-> <<>>, C |-> <<>>, shapes |-> <<>>]

NoSolver == [propagators |-> <<>>, update_expressions |-> <<>>, shape_state_variables |-> <<>>]

NoCall == [symbol |-> "", definition |-> Zero, keys |-> {},
           avs |-> [given |-> FALSE, list |-> <<>>]]

NoOutcome == [outcome |-> "", shape |-> NoShape, list_after |-> <<>>]

\* a fresh process: the default list is empty; no propagation runs
OdeInit ==
    /\ ode_default = <<>>
    /\ ode_pc = "idle"
    /\ ode_in = NoCall
    /\ ode_out = NoOutcome
    /\ node_is_lin = <<>>
    /\ E = <<>>
    /\ queue = <<>>
    /\ pc = "entry"
    /\ entry = <<>>
    /\ enq = <<>>
    /\ calls = 0
    /\ first_result = <<>>
    /\ sys_pc = "idle"
    /\ indict = <<>>
    /\ shape_list = <<>>
    /\ shape_sys = NoSystem
    /\ dependency_edges = <<>>
    /\ lin_cc = <<>>
    /\ sub_symbols = {}
    /\ sub_sys = NoSystem
    /\ solver_dict = NoSolver
    /\ solvers_json = <<>>

\* a call of Shape.from_ode up to its return, or up to the breakpoint at line 711
FromOdeCall ==
    /\ ode_pc = "idle"
    /\ \E symbol \in OdeNames, definition \in ExprsUpTo(OdeSyms, MaxTerms),
          avs \in OdeLists :
       \E keys \in OdeKeySets(symbol) :
          LET r == FromOde(symbol, definition, keys,
                           IF avs.given THEN avs.list ELSE ode_default)
          IN  /\ ode_in' = [symbol |-> symbol, definition |-> definition, keys |-> keys,
                            avs |-> avs]
              /\ ode_out' = r
              /\ ode_default' = IF avs.given THEN ode_default ELSE r.list_after
              /\ ode_pc' = IF r.outcome = "Shape" /\ StopsInDebugger(symbol)
                           THEN "pdb" ELSE "returned"

\* the debugger prompt is answered with "continue" on standard input
FromOdeDebuggerContinue ==
    /\ ode_pc = "pdb"
    /\ ode_pc' = "returned"
    /\ UNCHANGED <<ode_default, ode_in, ode_out>>

\* the caller goes on to its next call in the same process
FromOdeDone ==
    /\ ode_pc = "returned"
    /\ ode_pc' = "idle"
    /\ ode_in' = NoCall
    /\ ode_out' = NoOutcome
    /\ UNCHANGED ode_default

OdeNext ==
    \/ (FromOdeCall /\ UNCHANGED <<propVars, sysVars>>)
    \/ (FromOdeDebuggerContinue /\ UNCHANGED <<propVars, sysVars>>)
    \/ (FromOdeDone /\ UNCHANGED <<propVars, sysVars>>)


-----------------------------------------------------------------------------
(* propagate_lin_cc_judgements *)

Nodes == 1..NumNodes

\* the insertion order of the keys of node_is_lin (dict iteration order)
NodeKeys == [i \in 1..NumNodes |-> i]

\* queue = [ sym for sym, is_lin_cc in node_is_lin.items() if not is_lin_cc ]
InitialQueue(nil, keys) == SelectSeq(keys, LAMBDA n : ~nil[n])

\* variant: the edge tuples are read the other way round
DependentNeighboursReversed(edges, n) ==
    LET sel == SelectSeq(edges, LAMBDA e : e[1] = n)
    IN  [i \in 1..Len(sel) |-> sel[i][2]]

\* dependent_neighbours = [ n1 for (n1, n2) in E if n2 == n ]
DependentNeighbours(edges, n) ==
    LET sel == SelectSeq(edges, LAMBDA e : e[2] = n)
    IN  [i \in 1..Len(sel) |-> sel[i][1]]

\* variant: a neighbour that is already demoted is marked lin-cc again
RECURSIVE MarkNeighboursRepromote(_, _, _)
MarkNeighboursRepromote(neigh, nil, q) ==
    IF neigh = <<>> THEN [node_is_lin |-> nil, queue |-> q]
    ELSE LET h == Head(neigh)
         IN  IF nil[h]
             THEN MarkNeighboursRepromote(Tail(neigh), [nil EXCEPT ![h] = FALSE], Append(q, h))
             ELSE MarkNeighboursRepromote(Tail(neigh), [nil EXCEPT ![h] = TRUE], q)

\* variant: the demoted neighbour is not appended to the queue
RECURSIVE MarkNeighboursNoAppend(_, _, _)
MarkNeighboursNoAppend(neigh, nil, q) ==
    IF neigh = <<>> THEN [node_is_lin |-> nil, queue |-> q]
    ELSE LET h == Head(neigh)
         IN  MarkNeighboursNoAppend(Tail(neigh), [nil EXCEPT ![h] = FALSE], q)

\* variant: the test "if node_is_lin[n_neigh]" is missing
RECURSIVE MarkNeighboursUnguarded(_, _, _)
MarkNeighboursUnguarded(neigh, nil, q) ==
    IF neigh = <<>> THEN [node_is_lin |-> nil, queue |-> q]
    ELSE LET h == Head(neigh)
         IN  MarkNeighboursUnguarded(Tail(neigh), [nil EXCEPT ![h] = FALSE], Append(q, h))

\* for n_neigh in dependent_neighbours:
\*     if node_is_lin[n_neigh]: node_is_lin[n_neigh] = False; queue.append(n_neigh)
RECURSIVE MarkNeighbours(_, _, _)
MarkNeighbours(neigh, nil, q) ==
    IF neigh = <<>> THEN [node_is_lin |-> nil, queue |-> q]
    ELSE LET h == Head(neigh)
         IN  IF nil[h]
             THEN MarkNeighbours(Tail(neigh), [nil EXCEPT ![h] = FALSE], Append(q, h))
             ELSE MarkNeighbours(Tail(neigh), nil, q)

\* one iteration of the while loop: n = queue.pop(0); if not node_is_lin[n]: ...
LoopIteration(nil, q, edges) ==
    LET n == Head(q)
    IN  IF ~nil[n]
        THEN MarkNeighbours(DependentNeighbours(edges, n), nil, Tail(q))
        ELSE [node_is_lin |-> nil, queue |-> Tail(q)]

\* how often n occurs in the sequence s
Occurrences(s, n) == Cardinality({i \in DOMAIN s : s[i] = n})

-----------------------------------------------------------------------------
(* Shape.from_function *)

\* A function of time p(t) * exp(lam * t): p a polynomial given by its
\* coefficients, the constant one first; the integer lam stands for a
\* parameter-only rate such as -1/tau
PolyEval(p, t) ==
    LET RECURSIVE Horner(_)
        Horner(i) == IF i > Len(p) THEN 0 ELSE p[i] + t * Horner(i + 1)
    IN  Horner(1)

PolyDiff(p) == [i \in 1..Len(p) |-> IF i < Len(p) THEN i * p[i + 1] ELSE 0]

PolyAdd(p, q) == [i \in 1..Len(p) |-> p[i] + q[i]]

PolyScale(c, p) == [i \in 1..Len(p) |-> c * p[i]]

PolyIsZero(p) == \A i \in 1..Len(p) : p[i] = 0

\* sympy.diff(f, time_symbol): (p' + lam * p) * exp(lam * t)
TimeDiff(lam, p) == PolyAdd(PolyDiff(p), PolyScale(lam, p))

\* lines 403, 460: derivatives, the list [f, f', ..., f^(n)] (the polynomial parts)
RECURSIVE Derivatives(_, _, _)
Derivatives(lam, p, n) ==
    IF n = 0 THEN <<p>>
    ELSE LET prev == Derivatives(lam, p, n - 1)
         IN  Append(prev, TimeDiff(lam, prev[n]))

\* the matrix M without its first row and without column j
Minor(M, j) ==
    [r \in 1..(Len(M) - 1) |->
        [c \in 1..(Len(M) - 1) |-> M[r + 1][IF c < j THEN c ELSE c + 1]] \o <<>>] \o <<>>

\* sympy.det(X), by expansion along the first row
RECURSIVE Det(_)
Det(M) ==
    IF Len(M) = 0 THEN 1
    ELSE LET RECURSIVE Expand(_)
             Expand(j) ==
                 IF j > Len(M) THEN 0
                 ELSE (IF j % 2 = 1 THEN 1 ELSE -1) * M[1][j] * Det(Minor(M, j))
                      + Expand(j + 1)
         IN  Expand(1)

\* lines 479-483: X[i, j] = derivatives[j].subs(t, i + t_), up to the common
\* positive factor exp(lam * (i + t_)) of row i
SampleX(derivatives, order, t) ==
    [i \in 1..order |-> [j \in 1..order |-> PolyEval(derivatives[j], i - 1 + t)] \o <<>>] \o <<>>

\* line 481: Y[i] = derivatives[order].subs(t, i + t_), up to the same factor
SampleY(derivatives, order, t) ==
    [i \in 1..order |-> PolyEval(derivatives[order + 1], i - 1 + t)] \o <<>>

\* X with its column j replaced by Y
ReplaceColumn(X, j, Y) ==
    [i \in 1..Len(X) |-> [c \in 1..Len(X) |-> IF c = j THEN Y[i] ELSE X[i][c]] \o <<>>] \o <<>>

SetMin(S) == CHOOSE v \in S : \A w \in S : v <= w

\* the defaults of the signature (line 348)
DefaultMaxT == 100

DefaultMaxOrder == 4

\* lines 418-422: the sample times at which the function is not zero
NonzeroSamples(p, max_t) == {t \in 1..(max_t - 1) : PolyEval(p, t) # 0}

\* lines 444-446: order 1, with derivative_factors[0] = (f' / f) at t_val; the
\* residual f' - derivative_factors[0] * f, multiplied by f(t_val)
ResidualOrderOne(lam, p, t_val) ==
    LET d == Derivatives(lam, p, 1)
    IN  PolyAdd(PolyScale(PolyEval(d[1], t_val), d[2]),
                PolyScale(-PolyEval(d[2], t_val), d[1]))

\* lines 477-487: the sample times t_ at which X is invertible
InvertibleSamples(derivatives, order, max_t) ==
    {t \in 1..(max_t - 1) : Det(SampleX(derivatives, order, t)) # 0}

\* lines 503-515: the residual derivatives[order] - sum of derivative_factors[k] *
\* derivatives[k] with derivative_factors = X.inv() * Y, multiplied by det(X)
RECURSIVE ResidualSum(_, _, _, _)
ResidualSum(d, X, Y, k) ==
    IF k = 0 THEN PolyScale(Det(X), d[Len(X) + 1])
    ELSE PolyAdd(ResidualSum(d, X, Y, k - 1),
                 PolyScale(-Det(ReplaceColumn(X, k, Y)), d[k]))

NotFound(order) == [found_ode |-> FALSE, order |-> order, derivative_factors |-> <<>>]

\* lines 503-521: derivative_factors = X.inv() * Y and the test of the residual.
\* long_orders are the orders at which str(diff_rhs_lhs) has 1000 characters or
\* more (line 519)
SolveAndTest(d, X, Y, order, long_orders) ==
    IF order \in long_orders \/ ~PolyIsZero(ResidualSum(d, X, Y, order))
    THEN NotFound(order)
    ELSE [found_ode |-> TRUE, order |-> order,
          derivative_factors |->
              [k \in 1..order |-> Const(Det(ReplaceColumn(X, k, Y)) \div Det(X))]]

\* lines 477-494: X and Y at the first t_ with an invertible X; without one the
\* order is passed over
SampleAndSolve(d, order, ts, long_orders) ==
    IF ts = {} THEN NotFound(order)
    ELSE SolveAndTest(d, SampleX(d, order, SetMin(ts)), SampleY(d, order, SetMin(ts)),
                      order, long_orders)

\* one pass of the while loop for the given order and derivatives d
TryOrderWith(d, order, max_t, long_orders) ==
    SampleAndSolve(d, order, InvertibleSamples(d, order, max_t), long_orders)

TryOrder(lam, p, order, max_t, long_orders) ==
    TryOrderWith(Derivatives(lam, p, order), order, max_t, long_orders)

\* lines 452-521: while not found_ode and order < max_order: order += 1; ...
RECURSIVE WhileLoop(_, _, _, _, _, _)
RECURSIVE NextPass(_, _, _, _, _, _)
NextPass(r, lam, p, max_t, max_order, long_orders) ==
    IF r.found_ode THEN r ELSE WhileLoop(lam, p, r.order, max_t, max_order, long_orders)

WhileLoop(lam, p, order, max_t, max_order, long_orders) ==
    IF ~(order < max_order) THEN NotFound(order)
    ELSE NextPass(TryOrder(lam, p, order + 1, max_t, long_orders),
                  lam, p, max_t, max_order, long_orders)

\* lines 444-446: order 1, the factor (f' / f) at t_val
FirstOrderFactor(first, t_val) ==
    <<Const(PolyEval(first[2], t_val) \div PolyEval(first[1], t_val))>>

\* lines 444-521: the search for the order, from order 1 on
FindOde(lam, p, t_val, max_t, max_order, long_orders) ==
    IF PolyIsZero(ResidualOrderOne(lam, p, t_val))
    THEN [found_ode |-> TRUE, order |-> 1,
          derivative_factors |-> FirstOrderFactor(Derivatives(lam, p, 1), t_val)]
    ELSE WhileLoop(lam, p, 1, max_t, max_order, long_orders)

\* lines 523-536: the raise, or the Shape with its initial values
ShapeOrRaise(symbol, r) ==
    IF ~r.found_ode THEN [outcome |-> "Exception", shape |-> NoShape]
    ELSE [outcome |-> "Shape",
          shape |-> NewShape(symbol, r.order, {Sym(symbol, k) : k \in 0..(r.order - 1)},
                             r.derivative_factors, Zero)]

\* lines 418-434: t_val, the first sample time with a nonzero function value
WithSamples(symbol, lam, p, samples, max_t, max_order, long_orders) ==
    IF samples = {} THEN [outcome |-> "Exception", shape |-> NoShape]
    ELSE ShapeOrRaise(symbol, FindOde(lam, p, SetMin(samples), max_t, max_order, long_orders))

\* Shape.from_function(symbol, definition, max_t, max_order) for the definition
\* p(t) * exp(lam * t)
FromFunction(symbol, lam, p, max_t, max_order, long_orders) ==
    WithSamples(symbol, lam, p, NonzeroSamples(p, max_t), max_t, max_order, long_orders)

-----------------------------------------------------------------------------
(* from_json_to_shapes (__init__.py) *)

\* Shape.get_all_variable_symbols: the symbols of the shape, ascending
GetAllVariableSymbols(shape) == DerivativeSymbols(shape.symbol, shape.order)

\* a declaration "symbol''... = definition" with one initial value per level:
\* Shape.from_json passes it to from_ode (the order is the number of primes of
\* the left-hand side, which line 244 requires to be the number of initial values)
DeclKeys(decl) == {Sym(decl.symbol, d) : d \in 0..(decl.order - 1)}

\* a declaration "symbol = definition" (no prime on the left-hand side): the
\* definition is a function of time p(t) * exp(lam * t), held in the field
\* `function`; the declarations of differential equations do not have the field
NoFunction == [lam |-> 0, p |-> <<>>]

\* Shape.from_json: lines 265-268, order 0 goes to from_function with its default
\* max_t and max_order and without the list, every other order to from_ode.
\* The printed residual of the functions modelled is short (line 519)
FromJson(decl, list) ==
    IF decl.order = 0
    THEN FromFunction(decl.symbol, decl.function.lam, decl.function.p,
                      DefaultMaxT, DefaultMaxOrder, {}) @@ [list_after |-> list]
    ELSE FromOde(decl.symbol, decl.definition, DeclKeys(decl), list)

\* lines 80-83: the first run, which collects the variable symbols; every
\* from_json call passes from_json's default list object on to from_ode
RECURSIVE FirstRun(_, _, _, _)
FirstRun(decls, k, default, all_variable_symbols) ==
    IF k > Len(decls) THEN [ok |-> TRUE, all_variable_symbols |-> all_variable_symbols]
    ELSE LET r == FromJson(decls[k], default)
         IN  IF r.outcome # "Shape"
             THEN [ok |-> FALSE, all_variable_symbols |-> all_variable_symbols]
             ELSE FirstRun(decls, k + 1, r.list_after,
                           all_variable_symbols \o GetAllVariableSymbols(r.shape))

\* lines 87-89: the second run, with the now-known list of variable symbols
RECURSIVE SecondRun(_, _, _, _)
SecondRun(decls, k, all_variable_symbols, shapes) ==
    IF k > Len(decls) THEN [ok |-> TRUE, shapes |-> shapes]
    ELSE LET r == FromJson(decls[k], all_variable_symbols)
         IN  IF r.outcome # "Shape"
             THEN [ok |-> FALSE, shapes |-> shapes]
             ELSE SecondRun(decls, k + 1, r.list_after, Append(shapes, r.shape))

\* from_json_to_shapes in a fresh process
FromJsonToShapes(decls) ==
    LET first == FirstRun(decls, 1, <<>>, <<>>)
    IN  IF ~first.ok THEN [ok |-> FALSE, shapes |-> <<>>]
        ELSE SecondRun(decls, 1, first.all_variable_symbols, <<>>)

-----------------------------------------------------------------------------
(* SystemOfShapes (system_of_shapes.py) *)

RECURSIVE SumOrders(_)
SumOrders(shapes) ==
    IF shapes = <<>> THEN 0 ELSE Head(shapes).order + SumOrders(Tail(shapes))

\* lines 179-183: x, the state variables of the shapes one after the other
RECURSIVE StateVector(_)
StateVector(shapes) ==
    IF shapes = <<>> THEN <<>>
    ELSE Head(shapes).state_variables \o StateVector(Tail(shapes))

ZeroMatrix(N) == [i \in 1..N |-> [j \in 1..N |-> Zero]]

\* lines 188-191: diff_rhs_derivatives + sum of derivative_factor * derivative_symbol
ShapeExpr(shape) ==
    Add(shape.diff_rhs_derivatives,
        SumSeq([k \in 1..Len(shape.derivative_factors) |->
                   MulSym(shape.derivative_factors[k],
                          DerivativeSymbols(shape.symbol, shape.order)[k])]))

\* lines 194/211: the position in x of the shape's highest derivative symbol
\* ("__d" * -1 is the empty string, so an order-0 shape looks for its base symbol)
HighestDiffSymIdx(x, shape) ==
    IndexOf(x, Sym(shape.symbol, IF shape.order >= 1 THEN shape.order - 1 ELSE 0))

\* lines 195-196: A[highest_diff_sym_idx, j] = diff(shape_expr, x[j])
TopRow(A, x, shape) ==
    [A EXCEPT ![HighestDiffSymIdx(x, shape)] =
        [j \in 1..Len(x) |-> Diff(ShapeExpr(shape), x[j])]]

\* variant: the entry is written transposed
CompanionEntryTransposed(x, shape, i, order) ==
    [row |-> IndexOf(x, Sym(shape.symbol, order + 1)),
     col |-> i + (shape.order - order - 1) + 1]

\* lines 200-202: A[i + (shape.order - order - 1), _idx] = 1. with _idx the position of
\* the (order + 1)-th derivative symbol; i counts rows from 0, positions here from 1
CompanionEntry(x, shape, i, order) ==
    [row |-> i + (shape.order - order - 1) + 1,
     col |-> IndexOf(x, Sym(shape.symbol, order + 1))]

\* lines 199-202: for order in range(shape.order - 1)
RECURSIVE MarkDerivatives(_, _, _, _, _)
MarkDerivatives(A, x, shape, i, order) ==
    IF order >= shape.order - 1 THEN A
    ELSE LET e == CompanionEntry(x, shape, i, order)
         IN  MarkDerivatives([A EXCEPT ![e.row][e.col] = Const(1)], x, shape, i, order + 1)

\* lines 185-204: the loop over the shapes that fills A
RECURSIVE FillA(_, _, _, _, _)
FillA(A, x, shapes, k, i) ==
    IF k > Len(shapes) THEN A
    ELSE FillA(MarkDerivatives(TopRow(A, x, shapes[k]), x, shapes[k], i, 0),
               x, shapes, k + 1, i + shapes[k].order)

\* lines 212-213: for j in range(N):
\*     shape_expr = simplify(shape_expr - diff(shape_expr, x[j]) * x[j])
RECURSIVE SubtractLinear(_, _, _)
SubtractLinear(shape_expr, x, j) ==
    IF j > Len(x) THEN shape_expr
    ELSE SubtractLinear(Sub(shape_expr, MulSym(Diff(shape_expr, x[j]), x[j])), x, j + 1)

\* lines 206-217: the loop over the shapes that fills C
RECURSIVE FillC(_, _, _, _)
FillC(C, x, shapes, k) ==
    IF k > Len(shapes) THEN C
    ELSE FillC([C EXCEPT ![HighestDiffSymIdx(x, shapes[k])] =
                   SubtractLinear(shapes[k].diff_rhs_derivatives, x, 1)],
               x, shapes, k + 1)

\* SystemOfShapes.from_shapes; the lookup [...][0] raises IndexError when the
\* symbol is not in x
FromShapes(shapes) ==
    LET N == SumOrders(shapes)
        x == StateVector(shapes)
    IN  IF \E k \in 1..Len(shapes) : HighestDiffSymIdx(x, shapes[k]) = 0
        THEN [ok |-> FALSE, sys |-> NoSystem]
        ELSE [ok |-> TRUE,
              sys |-> [x |-> x,
                       A |-> FillA(ZeroMatrix(N), x, shapes, 1, 0),
                       C |-> FillC([j \in 1..N |-> Zero], x, shapes, 1),
                       shapes |-> shapes]]

\* variant: the tuple is (sym1, sym2)
GetDependencyEdgesSwapped(sys) ==
    LET N == Len(sys.x)
        pairs == [k \in 1..(N * N) |-> [i |-> ((k - 1) \div N) + 1, j |-> ((k - 1) % N) + 1]]
        sel == SelectSeq(pairs, LAMBDA q : \/ sys.A[q.j][q.i] # Zero
                                           \/ Diff(sys.C[q.j], sys.x[q.i]) # Zero)
    IN  [k \in 1..Len(sel) |-> <<sys.x[sel[k].i], sys.x[sel[k].j]>>]

\* get_dependency_edges: for i, sym1 / for j, sym2: the tuple (sym2, sym1) when
\* A[j, i] is not 0, or else when diff(C[j], sym1) is not 0
GetDependencyEdges(sys) ==
    LET N == Len(sys.x)
        pairs == [k \in 1..(N * N) |-> [i |-> ((k - 1) \div N) + 1, j |-> ((k - 1) % N) + 1]]
        sel == SelectSeq(pairs, LAMBDA q : \/ sys.A[q.j][q.i] # Zero
                                           \/ Diff(sys.C[q.j], sys.x[q.i]) # Zero)
    IN  [k \in 1..Len(sel) |-> <<sys.x[sel[k].j], sys.x[sel[k].i]>>]

\* Shape.is_lin_const_coeff(shapes)
IsLinConstCoeff(shape, shapes) ==
    LET all_symbols == UNION {Range(GetAllVariableSymbols(sh)) : sh \in Range(shapes) \cup {shape}}
    IN  \A sym \in all_symbols :
            /\ \A k \in 1..Len(shape.derivative_factors) :
                   Diff(shape.derivative_factors[k], sym) = Zero
            /\ Diff(shape.diff_rhs_derivatives, sym) # Zero =>
                   \A sym2 \in all_symbols :
                       Diff(Diff(shape.diff_rhs_derivatives, sym), sym2) = Zero

\* the keys of the dict get_lin_cc_symbols builds, in insertion order
RECURSIVE LinCcKeys(_)
LinCcKeys(shapes) ==
    IF shapes = <<>> THEN <<>>
    ELSE GetAllVariableSymbols(Head(shapes)) \o LinCcKeys(Tail(shapes))

\* variant: one judgement for the whole system
GetLinCcSymbolsJoint(sys) ==
    [sym \in Range(LinCcKeys(sys.shapes)) |->
        \A sh \in Range(sys.shapes) : IsLinConstCoeff(sh, sys.shapes)]

\* get_lin_cc_symbols: every symbol of a shape gets the shape's judgement
GetLinCcSymbols(sys) ==
    [sym \in Range(LinCcKeys(sys.shapes)) |->
        LET shape == CHOOSE sh \in Range(sys.shapes) : sym \in Range(GetAllVariableSymbols(sh))
        IN  IsLinConstCoeff(shape, sys.shapes)]

\* propagate_lin_cc_judgements run to its return
RECURSIVE RunLoop(_, _, _)
RunLoop(nil, q, edges) ==
    IF q = <<>> THEN nil
    ELSE LET r == LoopIteration(nil, q, edges) IN RunLoop(r.node_is_lin, r.queue, edges)

PropagateLinCcJudgements(nil, keys, edges) == RunLoop(nil, InitialQueue(nil, keys), edges)

\* get_sub_system(symbols)
GetSubSystem(sys, symbols) ==
    LET N == Len(sys.x)
        idx == SelectSeq([i \in 1..N |-> i], LAMBDA i : sys.x[i] \in symbols)
    IN  [x |-> [k \in 1..Len(idx) |-> sys.x[idx[k]]],
         A |-> [k \in 1..Len(idx) |-> [l \in 1..Len(idx) |-> sys.A[idx[k]][idx[l]]]],
         C |-> [k \in 1..Len(idx) |-> sys.C[idx[k]]],
         shapes |-> SelectSeq(sys.shapes, LAMBDA sh : Sym(sh.symbol, 0) \in symbols)]

\* variant: the projection is stored in the instance itself
GetSubSystemInPlace(sys, symbols) == GetSubSystem(sys, symbols)

\* self after get_sub_system(symbols): lines 102-108 assign local names only, and
\* the indexing of lines 104-106 builds new matrices
GetSubSystemSelf(sys, symbols) == sys

\* the matrix product, and the powers A^0 .. A^(n-1)
\* (the concatenations with <<>> make TLC tabulate the rows)
MatMul(A, B) ==
    [i \in 1..Len(A) |-> [j \in 1..Len(A) |->
        SumSeq([k \in 1..Len(A) |-> Mul(A[i][k], B[k][j])])] \o <<>>] \o <<>>

Identity(N) == [i \in 1..N |-> [j \in 1..N |-> IF i = j THEN Const(1) ELSE Zero]]

\* line 123: P = simplify(exp(A * h)).  The entry (row, col) of exp(A h) is the
\* series sum_k (A^k)[row, col] h^k / k!; it is given here by the coefficients
\* (A^k)[row, col], k = 0..N-1, which decide (Cayley-Hamilton) whether the
\* entry is identically zero
RECURSIVE Powers(_, _)
Powers(A, n) ==
    IF n = 0 THEN <<>>
    ELSE IF n = 1 THEN <<Identity(Len(A))>>
    ELSE LET prev == Powers(A, n - 1) IN Append(prev, MatMul(prev[n - 1], A))

PropagatorMatrix(A) ==
    LET N == Len(A)
        powers == Powers(A, N)
    IN  [row \in 1..N |->
            [col \in 1..N |-> [k \in 1..N |-> powers[k][row][col]] \o <<>>] \o <<>>] \o <<>>

\* variant: an entry of the propagator is nonzero where the entry of A is
PropagatorEntryNonzeroInA(p) == Len(p) >= 2 /\ p[2] # Zero

\* line 136: simplify(P[row, col]) != sympify(0)
PropagatorEntryNonzero(p) == \E k \in DOMAIN p : p[k] # Zero

\* str(symbol): the name followed by "__d" per derivative, cut at every "__"
SymbolTokens(sym) == <<sym.n>> \o [k \in 1..sym.d |-> "d"]

\* line 138: "__P__{}__{}".format(str(self.x_[row]), str(self.x_[col])), cut at every "__"
PlaceholderName(rowsym, colsym) == <<"P">> \o SymbolTokens(rowsym) \o SymbolTokens(colsym)

\* lines 130-156: the solver dictionary compute_propagator builds
SolverDict(sys) ==
    LET N == Len(sys.x)
        P == PropagatorMatrix(sys.A)
        nonzero == {q \in (1..N) \X (1..N) : PropagatorEntryNonzero(P[q[1]][q[2]])}
        names == {PlaceholderName(sys.x[q[1]], sys.x[q[2]]) : q \in nonzero}
        \* a later assignment to the same key replaces an earlier one
        last(name) == CHOOSE q \in nonzero :
                          /\ PlaceholderName(sys.x[q[1]], sys.x[q[2]]) = name
                          /\ \A r \in nonzero :
                                 PlaceholderName(sys.x[r[1]], sys.x[r[2]]) = name =>
                                     (r[1] < q[1] \/ (r[1] = q[1] /\ r[2] <= q[2]))
        cols(row) == SelectSeq([c \in 1..N |-> c], LAMBDA c : <<row, c>> \in nonzero)
    IN  [propagators |-> [name \in names |-> P[last(name)[1]][last(name)[2]]],
         update_expressions |->
             [sym \in Range(sys.x) |->
                 LET row == CHOOSE r \in 1..N : sys.x[r] = sym /\ \A r2 \in 1..N : sys.x[r2] = sym => r2 <= r
                 IN  [k \in 1..Len(cols(row)) |->
                         [placeholder |-> PlaceholderName(sys.x[row], sys.x[cols(row)[k]]),
                          variable |-> sys.x[cols(row)[k]]]]],
         shape_state_variables |-> sys.x]

\* compute_propagator up to the breakpoint at line 157: no test of C precedes the
\* computation
ComputePropagator(sys) == [raised |-> FALSE, solver_dict |-> SolverDict(sys)]

-----------------------------------------------------------------------------
(* The propagation loop as a state machine *)

PropInit ==
    /\ node_is_lin \in [Nodes -> BOOLEAN]
    /\ E \in SeqsUpTo(Nodes \X Nodes, MaxEdges)
    /\ queue = <<>>
    /\ pc = "entry"
    /\ entry = node_is_lin
    /\ enq = [n \in Nodes |-> 0]
    /\ calls = 0
    /\ first_result = node_is_lin
    /\ ode_default = <<>>
    /\ ode_pc = "idle"
    /\ ode_in = NoCall
    /\ ode_out = NoOutcome
    /\ sys_pc = "idle"
    /\ indict = <<>>
    /\ shape_list = <<>>
    /\ shape_sys = NoSystem
    /\ dependency_edges = <<>>
    /\ lin_cc = <<>>
    /\ sub_symbols = {}
    /\ sub_sys = NoSystem
    /\ solver_dict = NoSolver
    /\ solvers_json = <<>>

\* line 82: the call is entered and the queue is seeded
PropagateEnter ==
    /\ pc = "entry"
    /\ queue' = InitialQueue(node_is_lin, NodeKeys)
    /\ pc' = "loop"
    /\ calls' = calls + 1
    /\ enq' = [n \in Nodes |-> 0]
    /\ UNCHANGED <<node_is_lin, E, entry, first_result>>

\* lines 83-94: one iteration of the while loop
PropagateStep ==
    /\ pc = "loop"
    /\ Len(queue) > 0
    /\ LET r == LoopIteration(node_is_lin, queue, E)
           appended == SubSeq(r.queue, Len(queue), Len(r.queue))
       IN  /\ node_is_lin' = r.node_is_lin
           /\ queue' = r.queue
           /\ enq' = [n \in Nodes |-> enq[n] + Occurrences(appended, n)]
    /\ UNCHANGED <<E, pc, entry, calls, first_result>>

\* line 96: the loop has ended, node_is_lin is returned
PropagateReturn ==
    /\ pc = "loop"
    /\ Len(queue) = 0
    /\ pc' = "returned"
    /\ first_result' = IF calls = 1 THEN node_is_lin ELSE first_result
    /\ UNCHANGED <<node_is_lin, E, queue, entry, enq, calls>>

\* the caller applies the function to its own result, with the same edge list
PropagateAgain ==
    /\ pc = "returned"
    /\ calls = 1
    /\ pc' = "entry"
    /\ UNCHANGED <<node_is_lin, E, queue, entry, enq, calls, first_result>>

PropNext ==
    \/ (PropagateEnter /\ UNCHANGED <<odeVars, sysVars>>)
    \/ (PropagateStep /\ UNCHANGED <<odeVars, sysVars>>)
    \/ (PropagateReturn /\ UNCHANGED <<odeVars, sysVars>>)
    \/ (PropagateAgain /\ UNCHANGED <<odeVars, sysVars>>)

PropSpec == PropInit /\ [][PropNext]_vars

\* the loop is sequential code: once entered, each iteration runs
PropFairSpec == PropSpec /\ WF_vars(PropNext)

OdeSpec == OdeInit /\ [][OdeNext]_vars

-----------------------------------------------------------------------------
(* The analysis of one input as a state machine *)

\* the inputs: a shape "x" of any order, alone or with a shape "y" of order 1 and
\* a right-hand side of one term; -1 stands for the parameter-only factor of a term
SysCoeffs == {-1}

XDefinitions == ExprsOver({s \in AllSyms : s.n = "x"} \cup {Sym("y", 0)}, SysCoeffs, MaxTerms)

YDefinitions == ExprsOver({Sym("y", 0), Sym("x", 0)}, SysCoeffs, 1)

XDecls == {[symbol |-> "x", order |-> o, definition |-> d] : o \in 1..MaxOrder, d \in XDefinitions}

YDecls == {[symbol |-> "y", order |-> 1, definition |-> d] : d \in YDefinitions}

Dynamics ==
    {<<dx>> : dx \in XDecls}
    \cup {<<dx, dy>> : dx \in XDecls, dy \in YDecls}
    \cup {<<dy, dx>> : dx \in XDecls, dy \in YDecls}

\* a fresh process that has read its input
SysInit ==
    /\ sys_pc = "input"
    /\ indict \in Dynamics
    /\ shape_list = <<>>
    /\ shape_sys = NoSystem
    /\ dependency_edges = <<>>
    /\ lin_cc = <<>>
    /\ sub_symbols = {}
    /\ sub_sys = NoSystem
    /\ solver_dict = NoSolver
    /\ solvers_json = <<>>
    /\ node_is_lin = <<>>
    /\ E = <<>>
    /\ queue = <<>>
    /\ pc = "entry"
    /\ entry = <<>>
    /\ enq = <<>>
    /\ calls = 0
    /\ first_result = <<>>
    /\ ode_default = <<>>
    /\ ode_pc = "idle"
    /\ ode_in = NoCall
    /\ ode_out = NoOutcome

\* __init__.py line 100: from_json_to_shapes(indict, default_config)
AnalysisFromJsonToShapes ==
    /\ sys_pc = "input"
    /\ LET r == FromJsonToShapes(indict)
       IN  /\ shape_list' = r.shapes
           /\ sys_pc' = IF r.ok THEN "shapes" ELSE "raised"
    /\ UNCHANGED <<solvers_json, indict, shape_sys, dependency_edges, lin_cc, sub_symbols, sub_sys, solver_dict>>

\* __init__.py line 101: SystemOfShapes.from_shapes(shapes)
AnalysisFromShapes ==
    /\ sys_pc = "shapes"
    /\ LET r == FromShapes(shape_list)
       IN  /\ shape_sys' = r.sys
           /\ sys_pc' = IF r.ok THEN "system" ELSE "raised"
    /\ UNCHANGED <<solvers_json, indict, shape_list, dependency_edges, lin_cc, sub_symbols, sub_sys, solver_dict>>

\* __init__.py line 102: dependency_analysis(shape_sys, shapes)
DependencyAnalysis ==
    /\ sys_pc = "system"
    /\ LET edges == GetDependencyEdges(shape_sys)
           nil == GetLinCcSymbols(shape_sys)
       IN  /\ dependency_edges' = edges
           /\ lin_cc' = PropagateLinCcJudgements(nil, LinCcKeys(shape_sys.shapes), edges)
    /\ sys_pc' = "analysed"
    /\ UNCHANGED <<solvers_json, indict, shape_list, shape_sys, sub_symbols, sub_sys, solver_dict>>

\* __init__.py line 113
AnalyticSyms == {sym \in DOMAIN lin_cc : lin_cc[sym]}

\* __init__.py line 126
NumericSyms == Range(shape_sys.x) \ AnalyticSyms

\* get_sub_system with the analytic symbols (line 117, when there are any), with
\* the numeric symbols (line 128, when there are any), or with all the symbols
GetSubSystemCall ==
    /\ sys_pc = "analysed"
    /\ \E symbols \in ({AnalyticSyms, NumericSyms} \ {{}}) \cup {Range(shape_sys.x)} :
           /\ sub_symbols' = symbols
           /\ sub_sys' = GetSubSystem(shape_sys, symbols)
           /\ shape_sys' = GetSubSystemSelf(shape_sys, symbols)
    /\ sys_pc' = "sub"
    /\ UNCHANGED <<solvers_json, indict, shape_list, dependency_edges, lin_cc, solver_dict>>

\* get_sub_system called on the assembled system with any list of its symbols
GetSubSystemAny ==
    /\ sys_pc = "system"
    /\ \E symbols \in (SUBSET Range(shape_sys.x)) \ {{}} :
           /\ sub_symbols' = symbols
           /\ sub_sys' = GetSubSystem(shape_sys, symbols)
           /\ shape_sys' = GetSubSystemSelf(shape_sys, symbols)
    /\ sys_pc' = "projected"
    /\ UNCHANGED <<solvers_json, indict, shape_list, dependency_edges, lin_cc, solver_dict>>

\* compute_propagator of the sub-system, up to the breakpoint at line 157
ComputePropagatorCall ==
    /\ sys_pc = "sub"
    /\ LET r == ComputePropagator(sub_sys)
       IN  /\ solver_dict' = r.solver_dict
           /\ sys_pc' = IF r.raised THEN "raised" ELSE "pdb"
    /\ UNCHANGED <<solvers_json, indict, shape_list, shape_sys, dependency_edges, lin_cc, sub_symbols, sub_sys>>

\* the debugger prompt is answered with "continue"; line 159 returns solver_dict
ComputePropagatorDebuggerContinue ==
    /\ sys_pc = "pdb"
    /\ sys_pc' = "returned"
    /\ UNCHANGED <<solvers_json, indict, shape_list, shape_sys, dependency_edges, lin_cc, sub_symbols, sub_sys, solver_dict>>

SysNext ==
    \/ (AnalysisFromJsonToShapes /\ UNCHANGED <<propVars, odeVars>>)
    \/ (AnalysisFromShapes /\ UNCHANGED <<propVars, odeVars>>)
    \/ (DependencyAnalysis /\ UNCHANGED <<propVars, odeVars>>)
    \/ (GetSubSystemCall /\ UNCHANGED <<propVars, odeVars>>)
    \/ (ComputePropagatorCall /\ UNCHANGED <<propVars, odeVars>>)
    \/ (ComputePropagatorDebuggerContinue /\ UNCHANGED <<propVars, odeVars>>)

SysSpec == SysInit /\ [][SysNext]_vars

\* from the input to a projection of the assembled system
ProjNext ==
    \/ (AnalysisFromJsonToShapes /\ UNCHANGED <<propVars, odeVars>>)
    \/ (AnalysisFromShapes /\ UNCHANGED <<propVars, odeVars>>)
    \/ (GetSubSystemAny /\ UNCHANGED <<propVars, odeVars>>)

ProjSpec == SysInit /\ [][ProjNext]_vars

-----------------------------------------------------------------------------
(* Properties of propagate_lin_cc_judgements *)

\* the symbols n depends on directly: the n2 of every edge (n, n2)
DirectDependencies(n) == {e[2] : e \in {f \in Range(E) : f[1] = n}}

\* the symbols n depends on through a chain of zero or more edges
RECURSIVE DependencyClosure(_)
DependencyClosure(S) ==
    LET T == S \cup UNION {DirectDependencies(n) : n \in S}
    IN  IF T = S THEN S ELSE DependencyClosure(T)

\* C3: when propagate_lin_cc_judgements returns, a symbol is non-lin-cc exactly
\* if it was non-lin-cc on entry or depends, directly or through a chain of
\* edges, on a symbol that was non-lin-cc on entry.
C3_PropagationExact ==
    (pc = "returned" /\ calls = 1) =>
        \A n \in Nodes :
            (~node_is_lin[n]) <=> (\E m \in DependencyClosure({n}) : ~entry[m])

\* a symbol that was lin-cc on entry, has no direct dependency on a symbol that
\* was non-lin-cc on entry, and is demoted through a chain
C3_Witness ==
    /\ pc = "returned" /\ calls = 1
    /\ \E n \in Nodes :
          /\ entry[n] /\ ~node_is_lin[n]
          /\ \A m \in DirectDependencies(n) : entry[m]

\* C4: during the run a classification only ever changes from lin-cc to
\* non-lin-cc: no step sets an entry back to True.
C4_DemotionOnly ==
    [][\A n \in Nodes : (~node_is_lin[n]) => ~node_is_lin'[n]]_vars

\* a demotion has happened in the running loop
C4_Witness ==
    /\ pc = "loop"
    /\ \E n \in Nodes : entry[n] /\ ~node_is_lin[n]
    /\ Len(queue) > 0

\* C5: a second application to the first call's result, with the same edge
\* list, returns the same classification of every symbol.
C5_Idempotent ==
    (pc = "returned" /\ calls = 2) => node_is_lin = first_result

\* the second call has returned and the first call had demoted a symbol
C5_Witness ==
    /\ pc = "returned" /\ calls = 2
    /\ \E n \in Nodes : entry[n] /\ ~first_result[n]

\* C6: the loop terminates (the queue empties and the call returns) for every
\* edge list, cycles and self-loops included, and a demotion appends a symbol
\* to the queue at most once per call.
C6_Terminates ==
    /\ [](\A n \in Nodes : enq[n] <= 1)
    /\ ((pc = "loop") ~> (pc = "returned"))

\* a call has returned on a graph with a cycle through a demoted symbol
C6_Witness ==
    /\ pc = "returned"
    /\ \E n \in Nodes :
          /\ enq[n] = 1
          /\ \E m \in DirectDependencies(n) : n \in DependencyClosure({m})

-----------------------------------------------------------------------------
(* Properties of Shape.from_ode *)

\* C2: for every Shape built by from_ode, the sum of derivative_factors[k] times
\* the k-th derivative symbol plus the nonlinear residual equals the original
\* right-hand side, for every known-symbol argument.
C2_RoundTrip ==
    (ode_pc = "returned" /\ ode_out.outcome = "Shape") =>
        ReconstituteExpr(ode_out.shape) = ode_in.definition

\* Shape.from_ode called in a fresh process: the default list is still empty
FromOdeFresh(call) ==
    FromOde(call.symbol, call.definition, call.keys,
            IF call.avs.given THEN call.avs.list ELSE <<>>)

\* C9: from_ode called with the same arguments (the known-symbol argument
\* omitted included) yields the same Shape, or the same failure, whichever
\* from_ode calls were made earlier in the same process.
C9_NoSharedState ==
    (ode_pc = "returned") =>
        /\ ode_out.outcome = FromOdeFresh(ode_in).outcome
        /\ ode_out.shape = FromOdeFresh(ode_in).shape

\* C10: no call of from_ode on valid input stops to wait for external input.
C10_NoBlocking == ode_pc # "pdb"


-----------------------------------------------------------------------------
(* One call of Shape.from_ode in a fresh process *)

\* the right-hand sides: sums of terms "parameter times variable" over the
\* shape's own symbols and those of variables whose names end or begin with the
\* shape's name
OnceSyms == {s \in AllSyms : s.n \in {"x", "dx"}} \cup {Sym("x_in", 0)}

OnceDefinitions ==
    {e \in SUBSET {[c |-> -1, m |-> MonoTimes(UnitMono, s)] : s \in OnceSyms} :
        Cardinality(e) <= MaxTerms}

\* the keys of initial_values
OnceKeySets == SUBSET ({s \in AllSyms : s.n \in {"x", "x_in"}} \cup {Sym("y", 0)})

OnceInit ==
    /\ ode_default = <<>>
    /\ ode_pc = "idle"
    /\ ode_in \in {[symbol |-> "x", definition |-> d, keys |-> k,
                    avs |-> [given |-> FALSE, list |-> <<>>]] :
                       d \in OnceDefinitions, k \in OnceKeySets}
    /\ ode_out = NoOutcome
    /\ node_is_lin = <<>>
    /\ E = <<>>
    /\ queue = <<>>
    /\ pc = "entry"
    /\ entry = <<>>
    /\ enq = <<>>
    /\ calls = 0
    /\ first_result = <<>>
    /\ sys_pc = "idle"
    /\ indict = <<>>
    /\ shape_list = <<>>
    /\ shape_sys = NoSystem
    /\ dependency_edges = <<>>
    /\ lin_cc = <<>>
    /\ sub_symbols = {}
    /\ sub_sys = NoSystem
    /\ solver_dict = NoSolver
    /\ solvers_json = <<>>

\* Shape.from_ode(symbol, definition, initial_values) up to its return
FromOdeOnce ==
    /\ ode_pc = "idle"
    /\ LET r == FromOde(ode_in.symbol, ode_in.definition, ode_in.keys, ode_default)
       IN  /\ ode_out' = r
           /\ ode_default' = r.list_after
    /\ ode_pc' = "returned"
    /\ UNCHANGED ode_in

OnceNext == FromOdeOnce /\ UNCHANGED <<propVars, sysVars>>

OnceSpec == OnceInit /\ [][OnceNext]_vars

\* the derivative level of an initial-value key: the primes of the key
KeyLevels(keys) == {k.d : k \in keys}

\* C16: from_ode returns a Shape only if the keys of initial_values name the
\* shape's own variable and their derivative levels are exactly 0..order-1, each
\* once, order being the number of initial values
C16_InitialValuesChecked ==
    (ode_pc = "returned" /\ ode_out.outcome = "Shape") =>
        /\ \A k \in ode_in.keys : k.n = ode_in.symbol
        /\ KeyLevels(ode_in.keys) = 0..(Cardinality(ode_in.keys) - 1)

\* the number of primes of the most-primed occurrence of the symbol itself
OwnOrder(symbol, definition) ==
    SetMax({1} \cup {s.d + 1 : s \in {u \in ExprFreeSymbols(definition) : u.n = symbol}})

\* C17: from_ode fails unless the number of initial values is 1 plus the highest
\* number of primes on an occurrence of the shape's own symbol in the right-hand
\* side; primes on other variables, also on those whose name ends with the
\* symbol, do not count
C17_OrderFromOwnSymbol ==
    ode_pc = "returned" =>
        /\ ode_out.outcome = "Shape" =>
               Cardinality(ode_in.keys) = OwnOrder(ode_in.symbol, ode_in.definition)
        /\ (/\ Cardinality(ode_in.keys) = OwnOrder(ode_in.symbol, ode_in.definition)
            /\ ode_in.keys = {Sym(ode_in.symbol, d) : d \in 0..(Cardinality(ode_in.keys) - 1)})
               => ode_out.outcome = "Shape"

-----------------------------------------------------------------------------
(* SystemOfShapes: assembly and propagator *)

\* the first row of the block of the k-th shape
BlockStart(sys, k) == 1 + SumOrders(SubSeq(sys.shapes, 1, k - 1))

\* C1: in every system from_shapes returns, within the block of rows of each
\* shape (highest derivative first) every row below the top row has exactly one
\* nonzero entry of A, which is 1 and stands in the column of the next-higher
\* derivative of the same shape
C1_CompanionForm ==
    \A k \in 1..Len(shape_sys.shapes) :
        LET shape == shape_sys.shapes[k]
            top == BlockStart(shape_sys, k)
        IN  \A row \in (top + 1)..(top + shape.order - 1) :
                /\ shape_sys.x[row].n = shape.symbol
                /\ \A col \in 1..Len(shape_sys.x) :
                       shape_sys.A[row][col] =
                           IF shape_sys.x[col] = Sym(shape.symbol, shape_sys.x[row].d + 1)
                           THEN Const(1) ELSE Zero

\* from_shapes has returned a system of two shapes whose second shape has order 2,
\* a top row with entries of its own and of the other shape, and a row below it
C1_Witness ==
    /\ sys_pc = "system"
    /\ Len(shape_sys.shapes) = 2
    /\ shape_sys.shapes[2].order = 2
    /\ shape_sys.A[2][1] # Zero
    /\ shape_sys.A[2][2] # Zero
    /\ shape_sys.A[2][3] # Zero
    /\ shape_sys.A[3][2] = Const(1)

\* C7: whenever an entry of the C vector of the sub-system is not identically
\* zero, compute_propagator raises and builds no propagator result: a call that
\* got as far as its solver dictionary had C identically zero
C7_RejectsInhomogeneous ==
    sys_pc \in {"pdb", "returned"} => \A i \in 1..Len(sub_sys.C) : sub_sys.C[i] = Zero

\* C8: every state symbol that is lin-cc after propagate_lin_cc_judgements has an
\* identically zero entry of C and a row of A free of state variables
C8_AnalyticHomogeneous ==
    sys_pc \in {"analysed", "sub", "pdb", "returned"} =>
        \A i \in 1..Len(shape_sys.x) :
            lin_cc[shape_sys.x[i]] =>
                /\ shape_sys.C[i] = Zero
                /\ \A j \in 1..Len(shape_sys.x) :
                       ExprFreeSymbols(shape_sys.A[i][j]) \cap Range(shape_sys.x) = {}

\* the number of state-variable factors of the monomial m, x the state vector
StateDegree(m, x) == LET RECURSIVE Tot(_)
                         Tot(S) == IF S = {} THEN 0
                                   ELSE LET v == CHOOSE u \in S : TRUE IN m[v] + Tot(S \ {v})
                     IN  Tot(Range(x))

\* C11: in the top row of each shape, a term "parameter-only coefficient times
\* one state variable of another shape" of the defining expression puts that
\* coefficient into the A entry of that variable's column and nothing into C,
\* and a term that is a product of two or more state variables stays in the
\* row's C entry
C11_LinearizedAgainstAll ==
    sys_pc \in {"system", "analysed", "sub", "pdb", "returned"} =>
        \A k \in 1..Len(shape_sys.shapes) :
            LET row == BlockStart(shape_sys, k)
                x == shape_sys.x
            IN  \A t \in indict[k].definition :
                    /\ StateDegree(t.m, x) = 1 =>
                           \A j \in 1..Len(x) :
                               (t.m[x[j]] = 1 /\ x[j].n # indict[k].symbol) =>
                                   /\ Coef(shape_sys.A[row][j], DivSym(t, x[j]).m) = t.c
                                   /\ Coef(shape_sys.C[row], t.m) = 0
                    /\ StateDegree(t.m, x) >= 2 => Coef(shape_sys.C[row], t.m) = t.c

\* sym2's row depends on sym1: the A entry in sym2's row and sym1's column is not
\* zero, or the derivative of sym2's C entry with respect to sym1 is not zero
DependsOn(sys, j, i) == sys.A[j][i] # Zero \/ Diff(sys.C[j], sys.x[i]) # Zero

\* C12: for every ordered pair (sym1, sym2) of state variables the edge list holds
\* the tuple (sym2, sym1) exactly once if sym2's row depends on sym1 and not at
\* all otherwise, self-loops included, and it holds nothing else
C12_EdgesExact ==
    sys_pc \in {"analysed", "sub", "pdb", "returned"} =>
        /\ \A i, j \in 1..Len(shape_sys.x) :
               Occurrences(dependency_edges, <<shape_sys.x[j], shape_sys.x[i]>>) =
                   IF DependsOn(shape_sys, j, i) THEN 1 ELSE 0
        /\ \A k \in 1..Len(dependency_edges) :
               \E i, j \in 1..Len(shape_sys.x) :
                   dependency_edges[k] = <<shape_sys.x[j], shape_sys.x[i]>>

\* the edges of a system of two shapes hold a self-loop and an edge from one
\* shape's variable to another's whose reverse is absent
C12_Witness ==
    /\ sys_pc = "analysed"
    /\ Len(shape_sys.shapes) = 2
    /\ \E i, j \in 1..Len(shape_sys.x) :
           /\ shape_sys.x[i].n # shape_sys.x[j].n
           /\ <<shape_sys.x[j], shape_sys.x[i]>> \in Range(dependency_edges)
           /\ <<shape_sys.x[i], shape_sys.x[j]>> \notin Range(dependency_edges)
           /\ <<shape_sys.x[j], shape_sys.x[j]>> \in Range(dependency_edges)

\* the sum of the orders of the declarations
RECURSIVE DeclaredOrders(_)
DeclaredOrders(decls) ==
    IF decls = <<>> THEN 0 ELSE Head(decls).order + DeclaredOrders(Tail(decls))

\* C13: the state vector from_shapes builds has length N, the sum of the shapes'
\* orders, and lists shape after shape in input order, each shape's variables
\* from its highest derivative down to its base symbol
C13_StateVector ==
    sys_pc \in {"system", "analysed", "sub", "pdb", "returned"} =>
        /\ Len(shape_sys.x) = DeclaredOrders(indict)
        /\ Len(shape_sys.A) = Len(shape_sys.x)
        /\ Len(shape_sys.C) = Len(shape_sys.x)
        /\ \A k \in 1..Len(indict) :
               \A r \in 0..(indict[k].order - 1) :
                   shape_sys.x[1 + DeclaredOrders(SubSeq(indict, 1, k - 1)) + r] =
                       Sym(indict[k].symbol, indict[k].order - 1 - r)

\* from_shapes has built the state vector of a shape of order 1 followed by a
\* shape of order 2
C13_Witness ==
    /\ sys_pc = "system"
    /\ Len(indict) = 2
    /\ indict[1].order = 1
    /\ indict[2].order = 2
    /\ Len(shape_sys.x) = 3

C15_Projection ==
    sys_pc \in {"projected", "sub", "pdb", "returned"} =>
        LET pos(k) == IndexOf(shape_sys.x, sub_sys.x[k])
            n == Len(sub_sys.x)
        IN  /\ Range(sub_sys.x) = sub_symbols
            /\ n = Cardinality(sub_symbols)
            /\ \A k, l \in 1..n : k < l => pos(k) < pos(l)
            /\ Len(sub_sys.A) = n
            /\ Len(sub_sys.C) = n
            /\ \A k \in 1..n :
                   /\ Len(sub_sys.A[k]) = n
                   /\ sub_sys.C[k] = shape_sys.C[pos(k)]
                   /\ \A l \in 1..n : sub_sys.A[k][l] = shape_sys.A[pos(k)][pos(l)]
            /\ sub_sys.shapes =
                   SelectSeq(shape_sys.shapes,
                             LAMBDA sh : \E sym \in sub_symbols : sym.n = sh.symbol)

-----------------------------------------------------------------------------
(* One call of Shape.from_function *)

\* a max_t so small that only t = 1 is sampled
SmallMaxT == 2

PolyCoeffs == {-1, 0, 1}

\* the polynomial parts of the functions called with: degree up to MaxOrder
FnPolys == [1..(MaxOrder + 1) -> PolyCoeffs]

\* the rates: exp(-t/tau) and no exponential factor
FnRates == {-1, 0}

FnCalls ==
    [symbol : {"x"}, lam : FnRates, p : FnPolys, max_t : {SmallMaxT, DefaultMaxT},
     max_order : 1..(MaxOrder + 1), long_orders : SUBSET (2..(MaxOrder + 1))]

FnInit ==
    /\ ode_default = <<>>
    /\ ode_pc = "idle"
    /\ ode_in \in FnCalls
    /\ ode_out = NoOutcome
    /\ node_is_lin = <<>>
    /\ E = <<>>
    /\ queue = <<>>
    /\ pc = "entry"
    /\ entry = <<>>
    /\ enq = <<>>
    /\ calls = 0
    /\ first_result = <<>>
    /\ sys_pc = "idle"
    /\ indict = <<>>
    /\ shape_list = <<>>
    /\ shape_sys = NoSystem
    /\ dependency_edges = <<>>
    /\ lin_cc = <<>>
    /\ sub_symbols = {}
    /\ sub_sys = NoSystem
    /\ solver_dict = NoSolver
    /\ solvers_json = <<>>

\* Shape.from_function(symbol, definition, max_t, max_order) up to its return
\* or its raise
FromFunctionCall ==
    /\ ode_pc = "idle"
    /\ ode_out' = FromFunction(ode_in.symbol, ode_in.lam, ode_in.p, ode_in.max_t,
                               ode_in.max_order, ode_in.long_orders)
    /\ ode_pc' = "returned"
    /\ UNCHANGED <<ode_default, ode_in>>

FnNext == FromFunctionCall /\ UNCHANGED <<propVars, sysVars>>

FnSpec == FnInit /\ [][FnNext]_vars

\* whether the coefficients computed for the candidate order n make
\* x^(n) - sum_i f_i x^(i) identically zero
OrderPasses(lam, p, n, max_t) ==
    IF n = 1 THEN PolyIsZero(ResidualOrderOne(lam, p, SetMin(NonzeroSamples(p, max_t))))
    ELSE LET d == Derivatives(lam, p, n)
             ts == InvertibleSamples(d, n, max_t)
         IN  /\ ts # {}
             /\ PolyIsZero(ResidualSum(d, SampleX(d, n, SetMin(ts)),
                                       SampleY(d, n, SetMin(ts)), n))

PassingOrders(c) == {n \in 1..c.max_order : OrderPasses(c.lam, c.p, n, c.max_t)}

\* the number a parameter-only expression stands for
ConstValue(e) == IF e = {} THEN 0 ELSE (CHOOSE term \in e : TRUE).c

\* x^(n) - sum_i f_i x^(i) for the derivative factors of a returned shape
RECURSIVE ShapeResidual(_, _, _)
ShapeResidual(d, shape, k) ==
    IF k = 0 THEN d[shape.order + 1]
    ELSE PolyAdd(ShapeResidual(d, shape, k - 1),
                 PolyScale(-ConstValue(shape.derivative_factors[k]), d[k]))

\* C18: from_function returns a Shape whose order is the smallest n <= max_order
\* whose computed coefficients make x^(n) - sum_i f_i x^(i) identically zero, with
\* coefficients that pass that check; it raises when no order up to max_order
\* passes and when no sample time has a nonzero function value
C18_SmallestPassingOrder ==
    ode_pc = "returned" =>
        IF NonzeroSamples(ode_in.p, ode_in.max_t) = {} \/ PassingOrders(ode_in) = {}
        THEN ode_out.outcome = "Exception"
        ELSE /\ ode_out.outcome = "Shape"
             /\ ode_out.shape.order = SetMin(PassingOrders(ode_in))
             /\ Len(ode_out.shape.derivative_factors) = ode_out.shape.order
             /\ PolyIsZero(ShapeResidual(Derivatives(ode_in.lam, ode_in.p, ode_out.shape.order),
                                         ode_out.shape, ode_out.shape.order))

-----------------------------------------------------------------------------
(* Shape: initial values and derivative factors of a returned Shape *)

\* shape.get_initial_value(symbol followed by k primes) is not None (lines 145-156)
HasInitialValue(shape, symbol, k) == Sym(symbol, k) \in shape.initial_values

\* C19: a Shape returned by from_ode or from_function has exactly `order`
\* derivative factors and exactly `order` initial values, one for each derivative
\* level 0..order-1: get_initial_value(symbol followed by k primes) is not None
\* for every k in 0..order-1
C19_InitialValuePerLevel ==
    (ode_pc = "returned" /\ ode_out.outcome = "Shape") =>
        /\ Len(ode_out.shape.derivative_factors) = ode_out.shape.order
        /\ Cardinality(ode_out.shape.initial_values) = ode_out.shape.order
        /\ \A k \in 0..(ode_out.shape.order - 1) :
               HasInitialValue(ode_out.shape, ode_in.symbol, k)

-----------------------------------------------------------------------------
(* The analysis of an input with a shape given as a function of time *)

\* the example: the membrane potential V' = -V/tau under the name "y", the
\* current I = t * exp(-t/tau_syn) under the name "x"
AlphaPoly == [i \in 1..MaxOrder |-> IF i = 2 THEN 1 ELSE 0]

\* the declarations "x = p(t) * exp(lam * t)" with p of degree below MaxOrder
FunctionDecls ==
    {[symbol |-> "x", order |-> 0, definition |-> Zero,
      function |-> [lam |-> lam, p |-> q]] : lam \in FnRates, q \in [1..MaxOrder -> PolyCoeffs]}

\* the declarations "y' = definition"
OdeDecls ==
    {[symbol |-> "y", order |-> 1, definition |-> d, function |-> NoFunction] :
        d \in YDefinitions}

FnDynamics ==
    {<<f>> : f \in FunctionDecls}
    \cup {<<o, f>> : o \in OdeDecls, f \in FunctionDecls}
    \cup {<<f, o>> : o \in OdeDecls, f \in FunctionDecls}

\* a fresh process that has read its input
FnSysInit ==
    /\ sys_pc = "input"
    /\ indict \in FnDynamics
    /\ shape_list = <<>>
    /\ shape_sys = NoSystem
    /\ dependency_edges = <<>>
    /\ lin_cc = <<>>
    /\ sub_symbols = {}
    /\ sub_sys = NoSystem
    /\ solver_dict = NoSolver
    /\ solvers_json = <<>>
    /\ node_is_lin = <<>>
    /\ E = <<>>
    /\ queue = <<>>
    /\ pc = "entry"
    /\ entry = <<>>
    /\ enq = <<>>
    /\ calls = 0
    /\ first_result = <<>>
    /\ ode_default = <<>>
    /\ ode_pc = "idle"
    /\ ode_in = NoCall
    /\ ode_out = NoOutcome

FnSysSpec == FnSysInit /\ [][SysNext]_vars

\* the input of the example, its two declarations in either order
IsAlphaExample(dynamics) ==
    LET v == [symbol |-> "y", order |-> 1, definition |-> Scale(-1, {[c |-> 1, m |-> MonoTimes(UnitMono, Sym("y", 0))]}),
              function |-> NoFunction]
        i == [symbol |-> "x", order |-> 0, definition |-> Zero,
              function |-> [lam |-> -1, p |-> AlphaPoly]]
    IN  dynamics \in {<<v, i>>, <<i, v>>}

-----------------------------------------------------------------------------
(* The analysis of an input with a product of two state variables *)

\* the shape z' = z*y of the example under the name "y", its factor y under the
\* name "x": the declaration "y' = y*x"
ProductTerm == {[c |-> 1, m |-> MonoTimes(MonoTimes(UnitMono, Sym("y", 0)), Sym("x", 0))]}

ProductDecl == [symbol |-> "y", order |-> 1, definition |-> ProductTerm]

\* the product shape together with a shape "x" of any order and definition
ProductDynamics ==
    {<<ProductDecl, dx>> : dx \in XDecls} \cup {<<dx, ProductDecl>> : dx \in XDecls}

\* a fresh process that has read its input
ProductInit ==
    /\ sys_pc = "input"
    /\ indict \in ProductDynamics
    /\ shape_list = <<>>
    /\ shape_sys = NoSystem
    /\ dependency_edges = <<>>
    /\ lin_cc = <<>>
    /\ sub_symbols = {}
    /\ sub_sys = NoSystem
    /\ solver_dict = NoSolver
    /\ solvers_json = <<>>
    /\ node_is_lin = <<>>
    /\ E = <<>>
    /\ queue = <<>>
    /\ pc = "entry"
    /\ entry = <<>>
    /\ enq = <<>>
    /\ calls = 0
    /\ first_result = <<>>
    /\ ode_default = <<>>
    /\ ode_pc = "idle"
    /\ ode_in = NoCall
    /\ ode_out = NoOutcome

ProductSpec == ProductInit /\ [][SysNext]_vars

\* the state symbols the declarations give; the equation of the highest
\* derivative of a declaration is its definition, that of every lower level
\* is the next-higher derivative
DeclaredSymbols(dynamics) ==
    UNION {{Sym(dynamics[k].symbol, d) : d \in 0..(dynamics[k].order - 1)} : k \in DOMAIN dynamics}

EquationDependsOn(dynamics, s, u) ==
    \E k \in DOMAIN dynamics :
        /\ s.n = dynamics[k].symbol
        /\ \/ s.d = dynamics[k].order - 1 /\ u \in ExprFreeSymbols(dynamics[k].definition)
           \/ s.d < dynamics[k].order - 1 /\ u = Sym(s.n, s.d + 1)

\* the symbols whose equations depend on a symbol of S, directly or transitively
RECURSIVE Dependants(_, _)
Dependants(dynamics, S) ==
    LET more == {s \in DeclaredSymbols(dynamics) : \E u \in S : EquationDependsOn(dynamics, s, u)}
    IN  IF more \subseteq S THEN S ELSE Dependants(dynamics, S \cup more)

ShapeOf(shapes, symbol) == shapes[CHOOSE k \in DOMAIN shapes : shapes[k].symbol = symbol]

\* C21: for z' = z*y with y a state variable of another shape, from_ode gives
\* derivative_factors [0] and the nonlinear residual z*y; get_lin_cc_symbols
\* classifies z as not lin-cc; after propagate_lin_cc_judgements every symbol
\* whose equation depends on z, directly or transitively, is not lin-cc
C21_ProductNonlinear ==
    /\ sys_pc \in {"shapes", "system", "analysed", "sub", "pdb", "returned"} =>
           /\ ShapeOf(shape_list, "y").derivative_factors = <<Zero>>
           /\ ShapeOf(shape_list, "y").diff_rhs_derivatives = ProductTerm
    /\ sys_pc \in {"system", "analysed", "sub", "pdb", "returned"} =>
           ~GetLinCcSymbols(shape_sys)[Sym("y", 0)]
    /\ sys_pc \in {"analysed", "sub", "pdb", "returned"} =>
           \A s \in Dependants(indict, {Sym("y", 0)}) : s \in DOMAIN lin_cc /\ ~lin_cc[s]

\* an analysed input in which a shape of order 2 depends on z through its
\* highest derivative only
C21_Witness ==
    /\ sys_pc = "analysed"
    /\ ShapeOf(shape_list, "y").diff_rhs_derivatives = ProductTerm
    /\ Dependants(indict, {Sym("y", 0)}) = {Sym("y", 0), Sym("x", 1), Sym("x", 0)}
    /\ IsLinConstCoeff(ShapeOf(shape_list, "x"), shape_list)
    /\ ~lin_cc[Sym("x", 0)]

-----------------------------------------------------------------------------
(* analysis_ (__init__.py): the solvers *)

\* lines 112-159 after dependency_analysis.  With analytic symbols, line 119
\* takes their sub-system and line 120 calls generate_propagator_solver on it;
\* otherwise, with numeric symbols, line 132 takes their sub-system and line 133
\* calls generate_numeric_solver on it.  SystemOfShapes has neither method
\* (system_of_shapes.py defines compute_propagator only), so either call raises
\* AttributeError before an entry is appended to solvers_json
AnalysisSolvers ==
    /\ sys_pc = "analysed"
    /\ IF AnalyticSyms # {}
       THEN /\ sub_symbols' = AnalyticSyms
            /\ sub_sys' = GetSubSystem(shape_sys, AnalyticSyms)
            /\ sys_pc' = "AttributeError"
       ELSE IF Cardinality(AnalyticSyms) < Len(shape_sys.x)
       THEN /\ sub_symbols' = NumericSyms
            /\ sub_sys' = GetSubSystem(shape_sys, NumericSyms)
            /\ sys_pc' = "AttributeError"
       ELSE /\ sys_pc' = "done"
            /\ UNCHANGED <<sub_symbols, sub_sys>>
    /\ solvers_json' = <<>>
    /\ UNCHANGED <<indict, shape_list, shape_sys, dependency_edges, lin_cc, solver_dict>>

AnalysisNext ==
    \/ (AnalysisFromJsonToShapes /\ UNCHANGED <<propVars, odeVars>>)
    \/ (AnalysisFromShapes /\ UNCHANGED <<propVars, odeVars>>)
    \/ (DependencyAnalysis /\ UNCHANGED <<propVars, odeVars>>)
    \/ (AnalysisSolvers /\ UNCHANGED <<propVars, odeVars>>)

AnalysisSpec == SysInit /\ [][AnalysisNext]_vars

\* the solver entries the two parts call for: one per non-empty part
ExpectedSolvers ==
    (IF AnalyticSyms # {} THEN <<"analytical">> ELSE <<>>)
    \o (IF NumericSyms # {} THEN <<"numeric">> ELSE <<>>)

\* C22: analysis splits the state symbols into those still lin-cc after
\* propagation and the others, every state symbol in exactly one part, and
\* returns exactly one solver entry per non-empty part; an input whose state
\* symbols are all lin-cc gives exactly one entry, tagged "analytical"
C22_OneSolverPerPart ==
    sys_pc \notin {"input", "shapes", "system", "analysed", "raised"} =>
        /\ AnalyticSyms \cup NumericSyms = Range(shape_sys.x)
        /\ AnalyticSyms \cap NumericSyms = {}
        /\ sys_pc = "done"
        /\ Len(solvers_json) = Len(ExpectedSolvers)
        /\ \A k \in DOMAIN solvers_json : solvers_json[k].solver = ExpectedSolvers[k]

-----------------------------------------------------------------------------
(* SystemOfShapes: A x + C *)

\* row j of A times the state vector, plus the entry j of C
RowValue(sys, j) ==
    Add(SumSeq([i \in 1..Len(sys.x) |-> MulSym(sys.A[j][i], sys.x[i])]), sys.C[j])

\* the symbol s as an expression
SymbolExpr(s) == {[c |-> 1, m |-> MonoTimes(UnitMono, s)]}

\* C23: in every system built by from_shapes, A times the state vector plus C
\* is, row by row, the right-hand side of the first-order equation of that row:
\* the shape's full defining expression on the top row of its block, the
\* next-higher derivative on every other row, also when a defining expression
\* holds a product of two different state variables
C23_RowsAreEquations ==
    sys_pc \in {"system", "analysed", "sub", "pdb", "returned"} =>
        \A k \in 1..Len(shape_sys.shapes) :
            LET shape == shape_sys.shapes[k]
                top == BlockStart(shape_sys, k)
            IN  /\ RowValue(shape_sys, top) = ShapeExpr(shape)
                /\ \A d \in 1..(shape.order - 1) :
                       RowValue(shape_sys, top + d) = SymbolExpr(shape_sys.x[top + d - 1])

-----------------------------------------------------------------------------
(* compute_propagator on the system of a shape named "d" *)

\* the declarations of a shape "d" of any order: str() of its derivative
\* symbols gives "d", "d__d", ...
DDefinitions == ExprsOver({s \in AllSyms : s.n = "d"} \cup {Sym("y", 0)}, SysCoeffs, MaxTerms)

DDecls == {[symbol |-> "d", order |-> o, definition |-> e] : o \in 1..MaxOrder, e \in DDefinitions}

DDynamics ==
    {<<dd>> : dd \in DDecls}
    \cup {<<dd, dy>> : dd \in DDecls, dy \in {u \in YDecls : u.definition \in {Zero, Scale(-1, SymbolExpr(Sym("y", 0)))}}}

\* a fresh process that has read its input
PlaceholderInit ==
    /\ sys_pc = "input"
    /\ indict \in DDynamics
    /\ shape_list = <<>>
    /\ shape_sys = NoSystem
    /\ dependency_edges = <<>>
    /\ lin_cc = <<>>
    /\ sub_symbols = {}
    /\ sub_sys = NoSystem
    /\ solver_dict = NoSolver
    /\ solvers_json = <<>>
    /\ node_is_lin = <<>>
    /\ E = <<>>
    /\ queue = <<>>
    /\ pc = "entry"
    /\ entry = <<>>
    /\ enq = <<>>
    /\ calls = 0
    /\ first_result = <<>>
    /\ ode_default = <<>>
    /\ ode_pc = "idle"
    /\ ode_in = NoCall
    /\ ode_out = NoOutcome

PlaceholderSpec == PlaceholderInit /\ [][SysNext]_vars

\* the positions (row, col) at which P = exp(A*h) is not zero
NonzeroPositions(sys) ==
    {q \in (1..Len(sys.x)) \X (1..Len(sys.x)) :
        PropagatorEntryNonzero(PropagatorMatrix(sys.A)[q[1]][q[2]])}

\* str of a placeholder name or of a symbol: the tokens joined by "__"
\* (the leading "__" of a placeholder left out on both sides of a comparison)
NameAt(sys, q) == PlaceholderName(sys.x[q[1]], sys.x[q[2]])

\* C24: compute_propagator mints one placeholder for each nonzero entry of
\* P = exp(A*h), different positions getting different names, and gives every
\* state variable an update expression that is the sum, over exactly the nonzero
\* columns of its row, of placeholder(row, col) * state_variable[col]; a zero
\* entry gives neither a placeholder nor a term
C24_OnePlaceholderPerEntry ==
    sys_pc \in {"pdb", "returned"} =>
        /\ \A q, r \in NonzeroPositions(sub_sys) :
               q # r => NameAt(sub_sys, q) # NameAt(sub_sys, r)
        /\ DOMAIN solver_dict.propagators = {NameAt(sub_sys, q) : q \in NonzeroPositions(sub_sys)}
        /\ Cardinality(DOMAIN solver_dict.propagators) = Cardinality(NonzeroPositions(sub_sys))
        /\ \A row \in 1..Len(sub_sys.x) :
               LET terms == solver_dict.update_expressions[sub_sys.x[row]]
               IN  /\ {<<terms[k].placeholder, terms[k].variable>> : k \in DOMAIN terms}
                          = {<<NameAt(sub_sys, q), sub_sys.x[q[2]]>> :
                                 q \in {r \in NonzeroPositions(sub_sys) : r[1] = row}}
                   /\ Len(terms) = Cardinality({r \in NonzeroPositions(sub_sys) : r[1] = row})

-----------------------------------------------------------------------------
(* The classification of the symbols of one shape *)

\* C25: after get_lin_cc_symbols and propagate_lin_cc_judgements on a system
\* built by from_shapes, all the derivative-level symbols of one shape carry
\* the same classification
C25_ShapeNeverSplit ==
    sys_pc \in {"analysed", "sub", "pdb", "returned"} =>
        \A shape \in Range(shape_sys.shapes) :
            \A s1, s2 \in Range(GetAllVariableSymbols(shape)) : lin_cc[s1] = lin_cc[s2]

\* a shape of order 2 that is linear and constant coefficient by itself and
\* whose two symbols have both been marked by the propagation
C25_Witness ==
    /\ sys_pc = "analysed"
    /\ \E shape \in Range(shape_sys.shapes) :
           /\ shape.order = 2
           /\ IsLinConstCoeff(shape, shape_sys.shapes)
           /\ \A s \in Range(GetAllVariableSymbols(shape)) : ~lin_cc[s]

-----------------------------------------------------------------------------
(* The analytic symbols are closed under dependency *)

\* C26: after propagate_lin_cc_judgements no lin-cc symbol has a dependency
\* edge to a symbol that is not lin-cc, and the equation of no lin-cc symbol
\* refers to a state variable that is not lin-cc: the analytic symbols that
\* analysis_ hands to get_sub_system do not depend on the discarded ones
C26_LinCcClosed ==
    sys_pc \in {"analysed", "sub", "pdb", "returned"} =>
        /\ \A k \in DOMAIN dependency_edges :
               lin_cc[dependency_edges[k][1]] => lin_cc[dependency_edges[k][2]]
        /\ \A s \in AnalyticSyms :
               \A u \in DeclaredSymbols(indict) \ AnalyticSyms :
                   ~EquationDependsOn(indict, s, u)

\* a symbol that stays lin-cc and depends on another one, beside a symbol that
\* is not lin-cc and has been handed to get_sub_system with the analytic ones left out
C26_Witness ==
    /\ sys_pc = "sub"
    /\ sub_symbols = AnalyticSyms
    /\ NumericSyms # {}
    /\ \E k \in DOMAIN dependency_edges :
           /\ lin_cc[dependency_edges[k][1]]
           /\ dependency_edges[k][1] # dependency_edges[k][2]

-----------------------------------------------------------------------------
(* A shape built by from_function inside a system *)

\* the symbols of the shapes other than the one called name
OtherSymbols(shapes, name) ==
    UNION {Range(GetAllVariableSymbols(shapes[k])) : k \in {j \in DOMAIN shapes : shapes[j].symbol # name}}

\* no shape other than the one called name refers to a symbol of that shape
NotReferenced(shapes, name) ==
    \A k \in DOMAIN shapes :
        shapes[k].symbol # name =>
            \A s \in Range(GetAllVariableSymbols(ShapeOf(shapes, name))) :
                /\ Diff(shapes[k].diff_rhs_derivatives, s) = Zero
                /\ \A i \in DOMAIN shapes[k].derivative_factors :
                       Diff(shapes[k].derivative_factors[i], s) = Zero

\* C27: a Shape built by from_function has order >= 1 and a zero nonlinear
\* residual; in an assembled system whose other shapes do not refer to its
\* symbols there is no dependency edge between its symbols and theirs in either
\* direction, and its symbols are lin-cc before and after the propagation,
\* whatever the classification of the other shapes
C27_FunctionShapeIsolated ==
    /\ sys_pc \in {"shapes", "system", "analysed", "sub", "pdb", "returned"} =>
           /\ ShapeOf(shape_list, "x").order >= 1
           /\ ShapeOf(shape_list, "x").diff_rhs_derivatives = Zero
    /\ (sys_pc \in {"analysed", "sub", "pdb", "returned"} /\ NotReferenced(shape_list, "x")) =>
           LET own == Range(GetAllVariableSymbols(ShapeOf(shape_list, "x")))
               others == OtherSymbols(shape_list, "x")
           IN  /\ \A k \in DOMAIN dependency_edges :
                      /\ ~(dependency_edges[k][1] \in own /\ dependency_edges[k][2] \in others)
                      /\ ~(dependency_edges[k][1] \in others /\ dependency_edges[k][2] \in own)
               /\ \A s \in own : GetLinCcSymbols(shape_sys)[s] /\ lin_cc[s]

\* the function shape of order 2 beside a shape that is not lin-cc
C27_Witness ==
    /\ sys_pc = "analysed"
    /\ Len(shape_list) = 2
    /\ NotReferenced(shape_list, "x")
    /\ ShapeOf(shape_list, "x").order = 2
    /\ ~lin_cc[Sym("y", 0)]
    /\ lin_cc[Sym("x", 0)] /\ lin_cc[Sym("x", 1)]

-----------------------------------------------------------------------------
(* The list the caller of from_ode passes *)

\* C28: Shape.from_ode leaves the all_variable_symbols list of its caller
\* unchanged (same length, same elements) for every input, also when the
\* shape's own symbol is not yet in that list
C28_CallerListUnchanged ==
    (ode_pc # "idle" /\ ode_in.avs.given) => ode_out.list_after = ode_in.avs.list

-----------------------------------------------------------------------------
(* Shape.split_lin_nonlin called on its own *)

\* the symbols the expressions are written in; any of them can be a known symbol
SplitSyms == {s \in AllSyms : s.n = "x" /\ s.d <= 1} \cup {Sym("y", 0)}

\* the lists of known symbols: no symbol twice
SplitLists == {x \in SeqsUpTo(SplitSyms, MaxKnown + 1) : Cardinality(Range(x)) = Len(x)}

SplitCalls == [expr : ExprsOver(SplitSyms, SysCoeffs, MaxTerms), x : SplitLists]

SplitInit ==
    /\ ode_default = <<>>
    /\ ode_pc = "idle"
    /\ ode_in \in SplitCalls
    /\ ode_out = NoOutcome
    /\ node_is_lin = <<>>
    /\ E = <<>>
    /\ queue = <<>>
    /\ pc = "entry"
    /\ entry = <<>>
    /\ enq = <<>>
    /\ calls = 0
    /\ first_result = <<>>
    /\ sys_pc = "idle"
    /\ indict = <<>>
    /\ shape_list = <<>>
    /\ shape_sys = NoSystem
    /\ dependency_edges = <<>>
    /\ lin_cc = <<>>
    /\ sub_symbols = {}
    /\ sub_sys = NoSystem
    /\ solver_dict = NoSolver
    /\ solvers_json = <<>>

\* Shape.split_lin_nonlin(expr, x) up to its return
SplitLinNonlinCall ==
    /\ ode_pc = "idle"
    /\ ode_out' = SplitLinNonlin(ode_in.expr, ode_in.x)
    /\ ode_pc' = "returned"
    /\ UNCHANGED <<ode_default, ode_in>>

SplitNext == SplitLinNonlinCall /\ UNCHANGED <<propVars, sysVars>>

SplitSpec == SplitInit /\ [][SplitNext]_vars

\* the orderings of a list
Orderings(x) == {y \in SeqsUpTo(Range(x), Len(x)) : Len(y) = Len(x) /\ Range(y) = Range(x)}

\* the known symbols a term of expr is linear in
LinearIn(expr, t, x) == {sym \in Range(x) : t \in LinearTerms(expr, sym, x)}

\* the result r for the ordering y has the remainder of the result out for the
\* list x, and for each known symbol the factor out has for it
SameSplit(x, out, y, r) ==
    /\ r.nonlin_term = out.nonlin_term
    /\ \A i \in DOMAIN y : r.lin_factors[i] = out.lin_factors[IndexOf(x, y[i])]

\* C29: split_lin_nonlin assigns each additive term of the expanded expression
\* to at most one known symbol, so the linear factor returned for each known
\* symbol and the nonlinear remainder are the same for every ordering of the
\* list of known symbols
C29_OrderIndependent ==
    ode_pc = "returned" =>
        /\ \A t \in ode_in.expr : Cardinality(LinearIn(ode_in.expr, t, ode_in.x)) <= 1
        /\ \A y \in Orderings(ode_in.x) :
               SameSplit(ode_in.x, ode_out, y, SplitLinNonlin(ode_in.expr, y))

\* three known symbols, a term linear in one of them and a product of two of
\* them, which stays in the remainder
C29_Witness ==
    /\ ode_pc = "returned"
    /\ Len(ode_in.x) = 3
    /\ \E t \in ode_in.expr : Cardinality(LinearIn(ode_in.expr, t, ode_in.x)) = 1
    /\ \E t \in ode_in.expr : MonoDegree(t.m) = 2 /\ t \in ode_out.nonlin_term
    /\ \E j \in DOMAIN ode_in.x : ode_out.lin_factors[j] # Zero

-----------------------------------------------------------------------------
(* StiffnessTester.draw_decision (stiffness.py) *)

\* step sizes are counted in units of the machine precision np.finfo(float).eps;
\* 10. * machine_precision is then 10
TenEps == 10

\* the largest average step size, in the same units
MaxAverage == 7

\* minimal step sizes below, at and above 10. * machine_precision
MinSteps == (TenEps - 2)..(TenEps + 2)

Averages == 1..MaxAverage

\* lines 349-360; the return of line 353 follows the return of line 350 inside
\* the first branch (the elif that guarded it is part of the comment of line
\* 352); a call that falls off the end of the function returns None
DrawDecision(step_min_imp, step_min_exp, step_average_imp, step_average_exp) ==
    IF step_min_imp > TenEps /\ step_min_exp < TenEps THEN "implicit"
    ELSE IF step_min_imp < TenEps /\ step_min_exp < TenEps THEN "warning"
    ELSE IF step_min_imp > TenEps /\ step_min_exp > TenEps
         THEN IF step_average_imp > 6 * step_average_exp THEN "implicit" ELSE "explicit"
    ELSE "None"

StiffCalls ==
    [step_min_imp : MinSteps, step_min_exp : MinSteps,
     step_average_imp : Averages, step_average_exp : Averages]

StiffInit ==
    /\ ode_default = <<>>
    /\ ode_pc = "idle"
    /\ ode_in \in StiffCalls
    /\ ode_out = NoOutcome
    /\ node_is_lin = <<>>
    /\ E = <<>>
    /\ queue = <<>>
    /\ pc = "entry"
    /\ entry = <<>>
    /\ enq = <<>>
    /\ calls = 0
    /\ first_result = <<>>
    /\ sys_pc = "idle"
    /\ indict = <<>>
    /\ shape_list = <<>>
    /\ shape_sys = NoSystem
    /\ dependency_edges = <<>>
    /\ lin_cc = <<>>
    /\ sub_symbols = {}
    /\ sub_sys = NoSystem
    /\ solver_dict = NoSolver
    /\ solvers_json = <<>>

\* stiffness.py line 101, __init__.py line 155: solver_type = tester.check_stiffness()
DrawDecisionCall ==
    /\ ode_pc = "idle"
    /\ ode_out' = [decision |-> DrawDecision(ode_in.step_min_imp, ode_in.step_min_exp,
                                             ode_in.step_average_imp, ode_in.step_average_exp)]
    /\ ode_pc' = "returned"
    /\ UNCHANGED <<ode_default, ode_in>>

\* __init__.py line 156: solver_json["solver"] += "-" + solver_type, a TypeError
\* when solver_type is None
AppendSolverType ==
    /\ ode_pc = "returned"
    /\ ode_pc' = IF ode_out.decision = "None" THEN "TypeError" ELSE "appended"
    /\ UNCHANGED <<ode_default, ode_in, ode_out>>

StiffNext ==
    \/ (DrawDecisionCall /\ UNCHANGED <<propVars, sysVars>>)
    \/ (AppendSolverType /\ UNCHANGED <<propVars, sysVars>>)

StiffSpec == StiffInit /\ [][StiffNext]_vars

\* C30: draw_decision returns "explicit" when the minimal step size of the
\* implicit method is below 10 times the machine precision while that of the
\* explicit method is above it, "implicit" in the mirrored case, and for every
\* combination of inputs one of "implicit", "explicit" and "warning"
C30_DrawDecision ==
    ode_pc # "idle" =>
        /\ (ode_in.step_min_imp < TenEps /\ ode_in.step_min_exp > TenEps) =>
               ode_out.decision = "explicit"
        /\ (ode_in.step_min_imp > TenEps /\ ode_in.step_min_exp < TenEps) =>
               ode_out.decision = "implicit"
        /\ ode_out.decision \in {"implicit", "explicit", "warning"}

=============================================================================
